---- MODULE Spec2Model ----
(***************************************************************************)
(* photoTidyGo: the tidy executor (internal/media, TidyExecutor.Execute),  *)
(* its path planner (buildTargetPath, sanitizeRelative, ensureUnique,      *)
(* moveFile) and the SQLite store it writes (internal/storage).            *)
(*                                                                         *)
(* Strings are sequences of one-character strings, so that the path and    *)
(* sanitisation functions are computed character by character as the Go    *)
(* code computes them.  Paths follow the Unix rules of path/filepath.      *)
(***************************************************************************)
EXTENDS Integers, Sequences, FiniteSets, TLC

(***************************************************************************)
(* Bounds of the model.                                                    *)
(***************************************************************************)
\* Longest batch of move requests handed to Execute.
MaxBatch == 3
\* Most injected environment faults (a failed store statement, a failed
\* file system call) in one behaviour.
MaxFaults == 1
\* Most calls of Scan in one behaviour.
MaxScans == 2
\* Longest batch of a tidy run that runs beside a scan.
MaxAppBatch == 2
\* The ids of one ExecuteTidy call in the runs with ReloadSettings.
MaxReloadBatch == 1
\* Length of the long file name of the fourth library, less its extension:
\* long enough for the text of a rename error to pass TruncateLimit.
MaxName == 120
\* Most statements one caller sends to the store in one behaviour.
MaxStatements == 2

(***************************************************************************)
(* Strings (package strings).                                              *)
(***************************************************************************)
Upper == <<"A","B","C","D","E","F","G","H","I","J","K","L","M",
           "N","O","P","Q","R","S","T","U","V","W","X","Y","Z">>
Lower == <<"a","b","c","d","e","f","g","h","i","j","k","l","m",
           "n","o","p","q","r","s","t","u","v","w","x","y","z">>
Digits == <<"0","1","2","3","4","5","6","7","8","9">>

\* unicode.ToLower on one character.
ToLowerChar(c) ==
  IF \E i \in 1..26 : Upper[i] = c
  THEN Lower[CHOOSE i \in 1..26 : Upper[i] = c]
  ELSE c

\* strings.ToLower
ToLower(s) == [i \in 1..Len(s) |-> ToLowerChar(s[i])]

\* strings.HasPrefix
HasPrefix(s, p) == Len(p) <= Len(s) /\ SubSeq(s, 1, Len(p)) = p

\* strings.HasSuffix
HasSuffix(s, p) ==
  Len(p) <= Len(s) /\ SubSeq(s, Len(s) - Len(p) + 1, Len(s)) = p

\* strings.TrimSuffix
TrimSuffix(s, p) ==
  IF HasSuffix(s, p) THEN SubSeq(s, 1, Len(s) - Len(p)) ELSE s

\* The white space of unicode.IsSpace that the model's alphabet holds.
IsSpace(c) == c \in {" ", "\t"}

\* strings.TrimFunc: drop the leading and trailing characters in cutset.
RECURSIVE TrimLeftSet(_, _)
TrimLeftSet(s, cutset) ==
  IF s # <<>> /\ Head(s) \in cutset THEN TrimLeftSet(Tail(s), cutset) ELSE s

RECURSIVE TrimRightSet(_, _)
TrimRightSet(s, cutset) ==
  IF s # <<>> /\ s[Len(s)] \in cutset
  THEN TrimRightSet(SubSeq(s, 1, Len(s) - 1), cutset)
  ELSE s

TrimSet(s, cutset) == TrimRightSet(TrimLeftSet(s, cutset), cutset)

\* strings.TrimSpace
TrimSpace(s) == TrimSet(s, {" ", "\t"})


\* The non-empty pieces of s between consecutive cuts; cuts are indices in
\* increasing order, 0 and Len(s) + 1 among them.
FieldsBetween(s, cuts) ==
  SelectSeq([n \in 1..(Len(cuts) - 1) |-> SubSeq(s, cuts[n] + 1, cuts[n + 1] - 1)],
            LAMBDA f : f # <<>>)

\* strings.FieldsFunc: the maximal runs of characters outside seps.  s is
\* cut at each of its separators, before its first character and after its
\* last one.
FieldsFunc(s, seps) ==
  FieldsBetween(s, SelectSeq([k \in 1..(Len(s) + 2) |-> k - 1],
                             LAMBDA k : k \notin DOMAIN s \/ s[k] \in seps))

\* strings.Join(elems, "/")
RECURSIVE JoinSlash(_)
JoinSlash(elems) ==
  IF elems = <<>> THEN <<>>
  ELSE IF Len(elems) = 1 THEN elems[1]
  ELSE elems[1] \o <<"/">> \o JoinSlash(Tail(elems))

\* strconv.Itoa for n >= 0 (the %d of fmt.Sprintf).
RECURSIVE Itoa(_)
Itoa(n) ==
  IF n < 10 THEN <<Digits[n + 1]>>
  ELSE Append(Itoa(n \div 10), Digits[(n % 10) + 1])

\* A number in a field of the given width, zero padded (time.Format's
\* "2006", "01", "02").
RECURSIVE ZeroPad(_, _)
ZeroPad(s, width) ==
  IF Len(s) >= width THEN s ELSE ZeroPad(<<"0">> \o s, width)

(***************************************************************************)
(* Paths (package path/filepath, Unix).                                    *)
(***************************************************************************)
\* The index of the last "/" of p, 0 when there is none.
LastSlash(p) ==
  IF \E i \in 1..Len(p) : p[i] = "/"
  THEN CHOOSE i \in 1..Len(p) :
         p[i] = "/" /\ \A j \in (i + 1)..Len(p) : p[j] # "/"
  ELSE 0

\* filepath.Clean's pass over the elements: "." is dropped, ".." removes
\* the element before it, is dropped at the root and is kept otherwise.
RECURSIVE CleanElems(_, _, _)
CleanElems(elems, out, rooted) ==
  IF elems = <<>> THEN out
  ELSE LET e == Head(elems) IN
       IF e = <<".">> THEN CleanElems(Tail(elems), out, rooted)
       ELSE IF e = <<".", ".">>
            THEN IF out # <<>> /\ out[Len(out)] # <<".", ".">>
                 THEN CleanElems(Tail(elems), SubSeq(out, 1, Len(out) - 1), rooted)
                 ELSE IF rooted
                      THEN CleanElems(Tail(elems), out, rooted)
                      ELSE CleanElems(Tail(elems), Append(out, e), rooted)
            ELSE CleanElems(Tail(elems), Append(out, e), rooted)

\* filepath.Clean
Clean(p) ==
  IF p = <<>> THEN <<".">>
  ELSE LET rooted == p[1] = "/"
           out == CleanElems(FieldsFunc(p, {"/"}), <<>>, rooted)
       IN IF rooted THEN <<"/">> \o JoinSlash(out)
          ELSE IF out = <<>> THEN <<".">> ELSE JoinSlash(out)

\* filepath.Join: the non-empty elements joined by "/" and cleaned; the
\* empty string when every element is empty.
Join(elems) ==
  LET nonempty == SelectSeq(elems, LAMBDA e : e # <<>>)
  IN IF nonempty = <<>> THEN <<>> ELSE Clean(JoinSlash(nonempty))

\* filepath.Dir
Dir(p) == Clean(SubSeq(p, 1, LastSlash(p)))

\* filepath.Base
Base(p) ==
  IF p = <<>> THEN <<".">>
  ELSE LET q == TrimRightSet(p, {"/"})
       IN IF q = <<>> THEN <<"/">>
          ELSE SubSeq(q, LastSlash(q) + 1, Len(q))

\* filepath.Ext: from the last "." of the last element on.
Ext(p) ==
  LET name == SubSeq(p, LastSlash(p) + 1, Len(p))
  IN IF \E i \in 1..Len(name) : name[i] = "."
     THEN SubSeq(name,
                 CHOOSE i \in 1..Len(name) :
                   name[i] = "." /\ \A j \in (i + 1)..Len(name) : name[j] # ".",
                 Len(name))
     ELSE <<>>

(***************************************************************************)
(* Errors.  An error is the sequence of characters err.Error() returns, so *)
(* that isCrossDeviceError and truncateError read what the Go code reads.  *)
(* NoErr is the nil error.                                                 *)
(***************************************************************************)
NoErr == <<>>

\* The texts of the errno values the model's file system returns.
ENOENT == <<"n", "o", " ", "s", "u", "c", "h", " ", "f", "i", "l", "e", " ", "o", "r", " ", "d", "i", "r", "e", "c", "t", "o", "r", "y">>
EXDEV == <<"i", "n", "v", "a", "l", "i", "d", " ", "c", "r", "o", "s", "s", "-", "d", "e", "v", "i", "c", "e", " ", "l", "i", "n", "k">>
EACCES == <<"p", "e", "r", "m", "i", "s", "s", "i", "o", "n", " ", "d", "e", "n", "i", "e", "d">>
ENOTDIR == <<"n", "o", "t", " ", "a", " ", "d", "i", "r", "e", "c", "t", "o", "r", "y">>
EIO == <<"i", "n", "p", "u", "t", "/", "o", "u", "t", "p", "u", "t", " ", "e", "r", "r", "o", "r">>

\* os.LinkError.Error(): op old new: errno.
LinkError(op, old, new, errno) ==
  op \o <<" ">> \o old \o <<" ">> \o new \o <<":", " ">> \o errno

\* os.PathError.Error(): op path: errno.
PathError(op, path, errno) == op \o <<" ">> \o path \o <<":", " ">> \o errno

\* strings.Contains
Contains(s, sub) ==
  \E i \in 0..(Len(s) - Len(sub)) : SubSeq(s, i + 1, i + Len(sub)) = sub

isCrossDeviceError(err) ==
  IF err = NoErr THEN FALSE
  ELSE Contains(ToLower(err), <<"c", "r", "o", "s", "s", "-", "d", "e", "v", "i", "c", "e">>)

\* The length truncateError cuts a message to.
TruncateLimit == 240

\* truncateError that keeps one character too many.
truncateErrorOver(err) ==
  IF Len(err) > TruncateLimit THEN SubSeq(err, 1, TruncateLimit + 1) ELSE err

\* truncateError: the first TruncateLimit characters of a longer message.
truncateError(err) ==
  IF Len(err) > TruncateLimit THEN SubSeq(err, 1, TruncateLimit) ELSE err

\* The errors of the store: a cancelled context, a violated UNIQUE
\* constraint, a statement on a sql.DB that was closed.
ErrCanceled == <<"c", "o", "n", "t", "e", "x", "t", " ", "c", "a", "n", "c", "e", "l", "e", "d">>
ErrUniquePath == <<"U", "N", "I", "Q", "U", "E", " ", "c", "o", "n", "s", "t", "r", "a", "i", "n", "t", " ", "f", "a", "i", "l", "e", "d", ":", " ", "m", "e", "d", "i", "a", "_", "f", "i", "l", "e", "s", ".", "p", "a", "t", "h">>
ErrClosed == <<"s", "q", "l", ":", " ", "d", "a", "t", "a", "b", "a", "s", "e", " ", "i", "s", " ", "c", "l", "o", "s", "e", "d">>

\* fmt.Errorf("<prefix>: %w", err) and fmt.Sprintf("<prefix>: %v", err)
Wrap(prefix, err) == prefix \o <<":", " ">> \o err

(***************************************************************************)
(* The file system: files maps the path of every regular file to the       *)
(* content it holds, dirs is the set of directories.  A content is the     *)
(* number of the original file whose bytes it is, or Partial for a file    *)
(* that was created or truncated and not yet fully written.                *)
(***************************************************************************)
Partial == 0

\* The proper ancestors of a cleaned path: its directory, and so on up.
RECURSIVE Ancestors(_)
Ancestors(p) ==
  IF Dir(p) = p THEN {} ELSE {Dir(p)} \cup Ancestors(Dir(p))

\* os.Stat's errno: NoErr when the path exists, ENOENT (os.ErrNotExist)
\* when it does not, ENOTDIR when an element above it is a regular file.
StatErr(p, f, d) ==
  IF p \in DOMAIN f \/ p \in d THEN NoErr
  ELSE IF \E q \in Ancestors(p) : q \in DOMAIN f THEN ENOTDIR
  ELSE ENOENT

\* os.MkdirAll: the directory and every missing directory above it are
\* created; it fails when the path or an element above it is a regular file.
MkdirAll(p, f, d) ==
  IF \E q \in {p} \cup Ancestors(p) : q \in DOMAIN f
  THEN [err |-> PathError(<<"m", "k", "d", "i", "r">>, p, ENOTDIR), dirs |-> d]
  ELSE [err |-> NoErr, dirs |-> d \cup {p} \cup Ancestors(p)]

(***************************************************************************)
(* The path planner (internal/media: buildTargetPath and its helpers).     *)
(***************************************************************************)
\* The characters sanitizeSegment's Replacer deletes.
IllegalChars == {"<", ">", ":", "\"", "/", "\\", "|", "?", "*"}

\* sanitizeSegment: strings.TrimSpace, strings.Trim(s, "."), the Replacer
\* (every illegal character is deleted), strings.TrimSpace.
sanitizeSegment(segment) ==
  LET s1 == TrimSpace(segment)
      s2 == TrimSet(s1, {"."})
      s3 == SelectSeq(s2, LAMBDA c : c \notin IllegalChars)
  IN TrimSpace(s3)

\* The sanitized segments of sanitizeRelative, the empty ones dropped.
RECURSIVE sanitizeSegments(_)
sanitizeSegments(segments) ==
  IF segments = <<>> THEN <<>>
  ELSE LET s == sanitizeSegment(Head(segments))
       IN IF s # <<>> THEN <<s>> \o sanitizeSegments(Tail(segments))
          ELSE sanitizeSegments(Tail(segments))

sanitizeRelative(path) ==
  LET sanitized == sanitizeSegments(FieldsFunc(path, {"/", "\\"}))
  IN IF sanitized = <<>> THEN <<>> ELSE Join(sanitized)

\* The loop bound of ensureUnique: for i := 1; i < 1000; i++.
UniqueLimit == 1000

\* fmt.Sprintf("%s-%d%s", base, i, ext) under dir.
Candidate(dir, base, ext, i) ==
  Join(<<dir, base \o <<"-">> \o Itoa(i) \o ext>>)

\* ensureUniqueFrom that never tries its first candidate: the loop starts
\* one too far.
ensureUniqueFromNext(path, dir, base, ext, i, f, d) ==
  LET Free(k) == StatErr(Candidate(dir, base, ext, k), f, d) = ENOENT
  IN IF \E k \in (i + 1)..(UniqueLimit - 1) : Free(k)
     THEN [err |-> NoErr,
           path |-> Candidate(dir, base, ext,
                      CHOOSE k \in (i + 1)..(UniqueLimit - 1) :
                        Free(k) /\ \A j \in (i + 1)..(k - 1) : ~Free(j))]
     ELSE [err |-> <<"u", "n", "a", "b", "l", "e", " ", "t", "o", " ", "f", "i", "n", "d", " ", "u", "n", "i", "q", "u", "e", " ", "n", "a", "m", "e", " ", "f", "o", "r", " ">> \o path, path |-> <<>>]

\* ensureUnique's loop from i on: the first candidate that does not exist.
ensureUniqueFrom(path, dir, base, ext, i, f, d) ==
  LET Free(k) == StatErr(Candidate(dir, base, ext, k), f, d) = ENOENT
  IN IF \E k \in i..(UniqueLimit - 1) : Free(k)
     THEN [err |-> NoErr,
           path |-> Candidate(dir, base, ext,
                      CHOOSE k \in i..(UniqueLimit - 1) :
                        Free(k) /\ \A j \in i..(k - 1) : ~Free(j))]
     ELSE [err |-> <<"u", "n", "a", "b", "l", "e", " ", "t", "o", " ", "f", "i", "n", "d", " ", "u", "n", "i", "q", "u", "e", " ", "n", "a", "m", "e", " ", "f", "o", "r", " ">> \o path, path |-> <<>>]

ensureUnique(path, f, d) ==
  LET st == StatErr(path, f, d) IN
  IF st = ENOENT THEN [err |-> NoErr, path |-> path]
  ELSE IF st # NoErr THEN [err |-> PathError(<<"s", "t", "a", "t">>, path, st), path |-> <<>>]
  ELSE LET dir == Dir(path)
           name == Base(path)
           ext == Ext(name)
           base == TrimSuffix(name, ext)
       IN ensureUniqueFrom(path, dir, base, ext, 1, f, d)

(***************************************************************************)
(* Patterns (text/template).  A pattern is a sequence of tokens: a one     *)
(* character string is literal text, "{{.Field}}" is an action that prints *)
(* a field of templateData, and "{{" is an action that is never closed.    *)
(***************************************************************************)
TemplateFields ==
  {"{{.Date}}", "{{.Year}}", "{{.Month}}", "{{.Day}}", "{{.Hash}}",
   "{{.OriginalName}}", "{{.Ext}}"}

IsAction(tok) == tok \in TemplateFields \cup {"{{.Nope}}", "{{"}

\* template.Parse fails on an unclosed action.
ParseOK(pattern) == \A i \in 1..Len(pattern) : pattern[i] # "{{"

\* strings.TrimSpace(pattern) == ""
IsBlankPattern(pattern) == \A i \in 1..Len(pattern) : IsSpace(pattern[i])

DefaultPattern == <<"{{.Date}}", "/", "{{.OriginalName}}">>

\* time.Format of the layouts "2006", "01", "02" and "2006-01-02".  A time
\* is a record of its year, month and day.
FormatYear(t) == ZeroPad(Itoa(t.y), 4)
FormatMonth(t) == ZeroPad(Itoa(t.m), 2)
FormatDay(t) == ZeroPad(Itoa(t.d), 2)
FormatDate(t) ==
  FormatYear(t) \o <<"-">> \o FormatMonth(t) \o <<"-">> \o FormatDay(t)

\* The templateData that buildTargetPath fills in for a file.
templateData(file) ==
  LET timestamp == IF file.TakenAt.Valid THEN file.TakenAt.Time
                   ELSE file.ModTime
  IN [Date |-> FormatDate(timestamp),
      Year |-> FormatYear(timestamp),
      Month |-> FormatMonth(timestamp),
      Day |-> FormatDay(timestamp),
      Hash |-> file.HashMD5,
      OriginalName |-> Base(file.Path),
      Ext |-> ToLower(Ext(file.Path))]

FieldValue(tok, data) ==
  CASE tok = "{{.Date}}" -> data.Date
    [] tok = "{{.Year}}" -> data.Year
    [] tok = "{{.Month}}" -> data.Month
    [] tok = "{{.Day}}" -> data.Day
    [] tok = "{{.Hash}}" -> data.Hash
    [] tok = "{{.OriginalName}}" -> data.OriginalName
    [] tok = "{{.Ext}}" -> data.Ext
    [] OTHER -> <<>>

\* tmpl.Execute fails on a field templateData does not have.
ExecuteOK(tmpl) ==
  \A i \in 1..Len(tmpl) : IsAction(tmpl[i]) => tmpl[i] \in TemplateFields

\* tmpl.Execute: the literal text and the values of the fields, in order.
RECURSIVE Render(_, _)
Render(tmpl, data) ==
  IF tmpl = <<>> THEN <<>>
  ELSE (IF IsAction(Head(tmpl)) THEN FieldValue(Head(tmpl), data)
        ELSE <<Head(tmpl)>>) \o Render(Tail(tmpl), data)

\* buildTargetPath: the planned path, or an error; dirs is the set of
\* directories after its os.MkdirAll.
buildTargetPath(base, tmpl, file, f, d) ==
  LET data == templateData(file)
      rendered == sanitizeRelative(Render(tmpl, data))
      relative == IF rendered = <<>> THEN sanitizeSegment(data.OriginalName)
                  ELSE rendered
      target == Clean(Join(<<base, relative>>))
      baseClean == Clean(base)
      mk == MkdirAll(Dir(target), f, d)
      unique == ensureUnique(target, f, mk.dirs)
  IN IF ~ExecuteOK(tmpl)
     THEN [err |-> <<"e", "x", "e", "c", "u", "t", "e", " ", "p", "a", "t", "t", "e", "r", "n", ":", " ", "c", "a", "n", "'", "t", " ", "e", "v", "a", "l", "u", "a", "t", "e", " ", "f", "i", "e", "l", "d">>,
           path |-> <<>>, dirs |-> d]
     ELSE IF ~HasPrefix(ToLower(target), ToLower(baseClean))
     THEN [err |-> <<"t", "a", "r", "g", "e", "t", " ", "p", "a", "t", "h", " ", "e", "s", "c", "a", "p", "e", "s", " ", "b", "a", "s", "e", ":", " ">> \o target,
           path |-> <<>>, dirs |-> d]
     ELSE IF mk.err # NoErr
     THEN [err |-> Wrap(<<"c", "r", "e", "a", "t", "e", " ", "t", "a", "r", "g", "e", "t", " ", "d", "i", "r">>, mk.err),
           path |-> <<>>, dirs |-> d]
     ELSE [err |-> unique.err, path |-> unique.path, dirs |-> mk.dirs]

(***************************************************************************)
(* The store (internal/storage).  media_files and file_actions are         *)
(* sequences of rows; a row's id is its index, as AUTOINCREMENT gives it   *)
(* and no row is ever deleted.                                             *)
(***************************************************************************)
ActionStatusPending == "pending"
ActionStatusCompleted == "completed"
ActionStatusFailed == "failed"

\* A NULL column, and a sql.NullTime / sql.NullString that is not valid.
Null == [Valid |-> FALSE, String |-> <<>>]
NullTime == [Valid |-> FALSE, Time |-> [y |-> 0, m |-> 0, d |-> 0]]

\* Store.GetMediaByIDs: the rows whose id is among ids, keyed by id.
GetMediaByIDs(tbl, ids) ==
  LET found == {k \in DOMAIN tbl : \E i \in DOMAIN ids : ids[i] = tbl[k].ID}
  IN [id \in {tbl[k].ID : k \in found} |->
        tbl[CHOOSE k \in found : tbl[k].ID = id]]

\* Store.CreateAction: INSERT INTO file_actions; the new row's id is
\* LastInsertId.
CreateAction(tbl, action) ==
  Append(tbl, [action EXCEPT !.ID = Len(tbl) + 1])

\* MarkAction without its WHERE clause: every row is updated.
MarkActionAll(tbl, id, status, errMsg) ==
  [k \in DOMAIN tbl |->
     [tbl[k] EXCEPT !.Status = status, !.ErrorMsg = errMsg,
                    !.ExecutedAt = TRUE]]

\* Store.MarkAction: UPDATE file_actions SET status, error_msg,
\* executed_at WHERE id = ?.
MarkAction(tbl, id, status, errMsg) ==
  [k \in DOMAIN tbl |->
     IF tbl[k].ID = id
     THEN [tbl[k] EXCEPT !.Status = status, !.ErrorMsg = errMsg,
                         !.ExecutedAt = TRUE]
     ELSE tbl[k]]

\* The table without its UNIQUE index on path: no path is ever taken.
NoUniqueIndex(tbl, id, newPath) == FALSE

\* Whether UPDATE media_files SET path = newPath WHERE id = ? violates the
\* UNIQUE constraint on path.
PathTaken(tbl, id, newPath) ==
  /\ \E k \in DOMAIN tbl : tbl[k].ID = id
  /\ \E k \in DOMAIN tbl : tbl[k].ID # id /\ tbl[k].Path = newPath

\* UpdateMediaPath without its WHERE clause: every row gets the path.
UpdateEveryPath(tbl, id, newPath) ==
  [k \in DOMAIN tbl |-> [tbl[k] EXCEPT !.Path = newPath]]

\* Store.UpdateMediaPath, when the statement runs without error.
UpdateMediaPath(tbl, id, newPath) ==
  [k \in DOMAIN tbl |->
     IF tbl[k].ID = id THEN [tbl[k] EXCEPT !.Path = newPath] ELSE tbl[k]]

\* The characters of the model's alphabet in byte order, and a character's
\* place in it: the order SQLite's BINARY collation and Go's string
\* comparison use.
ByteOrder ==
  <<" ", "-", ".", "/">> \o Digits \o Upper \o <<"_">> \o Lower

CharCode(c) == CHOOSE i \in 1..Len(ByteOrder) : ByteOrder[i] = c

\* a < b as strings, byte by byte.
RECURSIVE StrLess(_, _)
StrLess(a, b) ==
  IF b = <<>> THEN FALSE
  ELSE IF a = <<>> THEN TRUE
  ELSE IF Head(a) # Head(b) THEN CharCode(Head(a)) < CharCode(Head(b))
  ELSE StrLess(Tail(a), Tail(b))

\* UpsertMediaFile without its ON CONFLICT clause and with no UNIQUE index
\* to stop it: every call inserts a row.
UpsertInsertOnly(tbl, file) ==
  Append(tbl, [file EXCEPT !.ID = Len(tbl) + 1])

\* Store.UpsertMediaFile, when the statement runs without error: INSERT
\* INTO media_files ... ON CONFLICT(path) DO UPDATE SET every column but
\* id and path.
UpsertMediaFile(tbl, file) ==
  IF \E k \in DOMAIN tbl : tbl[k].Path = file.Path
  THEN [k \in DOMAIN tbl |->
          IF tbl[k].Path = file.Path THEN [file EXCEPT !.ID = tbl[k].ID]
          ELSE tbl[k]]
  ELSE Append(tbl, [file EXCEPT !.ID = Len(tbl) + 1])

\* The query of ListDuplicateGroups without its WHERE clause: every row.
EveryRow(tbl) == DOMAIN tbl

\* The rows of ListDuplicateGroups' query: WHERE hash_md5 IN (SELECT
\* hash_md5 ... GROUP BY hash_md5 HAVING COUNT(*) > 1).
DuplicateRows(tbl) ==
  {k \in DOMAIN tbl :
     \E j \in DOMAIN tbl : j # k /\ tbl[j].HashMD5 = tbl[k].HashMD5}

\* ORDER BY hash_md5, id: row a comes before row b.
RowBefore(a, b) ==
  \/ StrLess(a.HashMD5, b.HashMD5)
  \/ a.HashMD5 = b.HashMD5 /\ a.ID < b.ID

\* The rows of tbl at the indices in S, in the query's order.
RECURSIVE OrderedRows(_, _)
OrderedRows(tbl, S) ==
  IF S = {} THEN <<>>
  ELSE LET first == CHOOSE k \in S :
                      \A j \in S \ {k} : RowBefore(tbl[k], tbl[j])
       IN <<tbl[first]>> \o OrderedRows(tbl, S \ {first})

\* The loop of ListDuplicateGroups over the rows: current is the group being
\* filled (no element while it is nil, one otherwise); a row whose hash is
\* not the current group's closes that group and opens the next.
RECURSIVE GroupRows(_, _, _)
GroupRows(rows, groups, current) ==
  IF rows = <<>>
  THEN groups \o current
  ELSE LET file == Head(rows) IN
       IF current = <<>> \/ current[1].Hash # file.HashMD5
       THEN GroupRows(Tail(rows), groups \o current,
                      <<[Hash |-> file.HashMD5, Files |-> <<file>>]>>)
       ELSE GroupRows(Tail(rows), groups,
                      <<[current[1] EXCEPT !.Files = Append(@, file)]>>)

\* Store.ListDuplicateGroups, when the query runs without error.
ListDuplicateGroups(tbl) ==
  GroupRows(OrderedRows(tbl, DuplicateRows(tbl)), <<>>, <<>>)

(***************************************************************************)
(* The state: the store's two tables, the file system, the context handed  *)
(* to Execute, and the position and locals of a running Execute.           *)
(***************************************************************************)
VARIABLES
  media,       \* media_files
  actions,     \* file_actions
  files,       \* the regular files: path -> content
  dirs,        \* the directories
  mounts,      \* the directories that are mount points of a second device
  cancelled,   \* ctx.Done() is closed
  faults,      \* environment faults injected so far
  pc,          \* where Execute is
  opts,        \* TidyOptions
  tmpl,        \* the pattern Execute parsed
  requests,    \* the batch of MoveRequest
  mediaMap,    \* the rows GetMediaByIDs returned
  idx,         \* the loop index of Execute (from 0)
  summary,     \* TidySummary
  targetPath,  \* the planned path of the item in flight
  actionID,    \* the id of its FileAction, 0 when none was written
  moveErr,     \* the error moveFile returned
  errMsg,      \* the message of a failed UpdateMediaPath
  events,      \* the TidyProgress values handed to onProgress, in order
  retErr       \* the error Execute returned

\* The scanner (Scanner.Scan) and the calls of the App around it.
VARIABLES
  links,          \* the symbolic links: path -> the path it points to
  scanOpts,       \* Options: what the settings hand to Scan
  scanPC,         \* where Scan is
  srcIdx,         \* the index of the source root in hand (from 0)
  todo,           \* the entries filepath.WalkDir has still to visit, in order
  built,          \* the MediaFile buildMediaFile returned for the file in hand
  fileCounter,    \* Scan's fileCounter
  persistCounter, \* Scan's persistCounter
  scanSummary,    \* Summary
  scanEvents,     \* the Progress values handed to onProgress, in order
  scanResults,    \* what the calls of Scan returned, in order
  dupResult,      \* what the last call of App.ListDuplicateGroups returned
  settings,       \* Settings: the extensions in the settings file, and as loaded
  db              \* sql.DB: the connections open, and each caller's statement

scanVars == <<links, scanOpts, scanPC, srcIdx, todo, built, fileCounter,
              persistCounter, scanSummary, scanEvents, scanResults, dupResult,
              settings, db>>

vars == <<media, actions, files, dirs, mounts, cancelled, faults, pc, opts, tmpl,
          requests, mediaMap, idx, summary, targetPath, actionID, moveErr,
          errMsg, events, retErr, scanVars>>

storeVars == <<media, actions>>
fsVars == <<files, dirs, mounts>>
runVars == <<opts, tmpl, requests, mediaMap, summary>>
itemVars == <<targetPath, actionID, moveErr, errMsg>>

\* Scan's Summary before anything is counted.
NoScanSummary ==
  [FilesDiscovered |-> 0, FilesPersisted |-> 0, FilesSkipped |-> 0,
   Errors |-> <<>>, DuplicateGroups |-> 0]

\* No MediaFile in hand.
NoFile == <<>>

\* The goroutines that write to the store at once: a call of App.RunScan
\* and two calls of App.ExecuteTidy.
Callers == {"scan", "tidy", "tidy2"}

\* The sql.DB storage.New returns: no connection in use, no statement
\* issued; closed holds the callers whose store (the one their Scanner or
\* TidyExecutor was built with) has had Close called on it.
DBOpened ==
  [closed |-> {},
   numOpen |-> 0,
   stmt |-> [c \in Callers |-> [phase |-> "idle", kind |-> "none", id |-> 0,
                                path |-> <<>>, status |-> "none"]],
   issued |-> [c \in Callers |-> 0]]

\* The scanner before RunScan is called and with nothing to scan: no
\* source folder is configured.
ScanIdle ==
  /\ links = <<>>
  /\ scanOpts = [Sources |-> <<>>, Extensions |-> <<>>,
                 FollowSymlinks |-> FALSE]
  /\ scanPC = "idle"
  /\ srcIdx = 0
  /\ todo = <<>>
  /\ built = NoFile
  /\ fileCounter = 0
  /\ persistCounter = 0
  /\ scanSummary = NoScanSummary
  /\ scanEvents = <<>>
  /\ scanResults = <<>>
  /\ dupResult = [groups |-> <<>>, err |-> NoErr]
  /\ db = DBOpened
  /\ settings = [File |-> <<>>, IncludeExtensions |-> <<>>]

(***************************************************************************)
(* The library the run starts from: two scanned files of the same name and *)
(* date, the first already under the target base (an earlier run moved it  *)
(* there and completed its FileAction), the second in a source folder (an  *)
(* earlier run crashed before moving it).  The first file may have been    *)
(* deleted from disk since it was scanned, and the source folder may be on *)
(* another device than the target base.                                    *)
(***************************************************************************)
PathBase == <<"/", "a">>
PathTidied == <<"/", "a", "/", "a", ".", "j">>
PathSource == <<"/", "s", "/", "a", ".", "j">>
PathSourceDir == <<"/", "s">>

Row1 ==
  [ID |-> 1, Path |-> PathTidied, HashMD5 |-> <<"c", "1">>,
   ModTime |-> [y |-> 2024, m |-> 1, d |-> 5], TakenAt |-> NullTime]
Row2 ==
  [ID |-> 2, Path |-> PathSource, HashMD5 |-> <<"c", "2">>,
   ModTime |-> [y |-> 2024, m |-> 3, d |-> 9],
   TakenAt |-> [Valid |-> TRUE, Time |-> [y |-> 2024, m |-> 1, d |-> 5]]]

\* The ledger the earlier runs left: the completed FileAction of the run
\* that moved the first file from /r/a.j, and the FileAction of a run that
\* crashed after writing it: it planned the second file under another
\* pattern and never moved it.
PriorActions ==
  <<[ID |-> 1, MediaID |-> 1, SourcePath |-> <<"/", "r", "/", "a", ".", "j">>,
     TargetPath |-> PathTidied, ActionType |-> "move",
     Status |-> ActionStatusCompleted, ErrorMsg |-> Null, ExecutedAt |-> TRUE,
     HashMD5 |-> <<"c", "1">>],
    [ID |-> 2, MediaID |-> 2, SourcePath |-> PathSource,
     TargetPath |-> <<"/", "a", "/", "b", "/", "a", ".", "j">>,
     ActionType |-> "move", Status |-> ActionStatusPending, ErrorMsg |-> Null,
     ExecutedAt |-> FALSE, HashMD5 |-> <<"c", "2">>]>>

\* The rows whose file is on disk: both, or the second alone.
Present == {{1, 2}, {2}}

\* The configured target base: unset, or PathBase.
Bases == {<<>>, PathBase}

\* The configured patterns: the file name alone; blank (the default
\* pattern is used); one whose text sanitizes to a ".." segment; one with
\* a field templateData lacks; one that does not parse.
Patterns ==
  {<<"{{.OriginalName}}">>,
   <<" ">>,
   <<":", ".", ".", ":", "/", "{{.OriginalName}}">>,
   <<"{{.Nope}}">>,
   <<"{{">>}

\* The sequences over S of length n.
RECURSIVE SeqsOfLen(_, _)
SeqsOfLen(S, n) ==
  IF n = 0 THEN {<<>>}
  ELSE {Append(s, x) : s \in SeqsOfLen(S, n - 1), x \in S}

\* The batches a caller may hand to Execute: at most MaxBatch requests, each
\* naming one of the two rows (1, 2) or an id that has no row (3).
Batches ==
  UNION {{[i \in 1..n |-> [MediaID |-> s[i]]] : s \in SeqsOfLen({1, 2, 3}, n)} :
         n \in 0..MaxBatch}

NoSummary ==
  [Total |-> 0, Moved |-> 0, Skipped |-> 0, Failed |-> 0, DryRun |-> FALSE,
   TargetBase |-> <<>>]

Init ==
  /\ media = <<Row1, Row2>>
  /\ actions = PriorActions
  /\ \E present \in Present :
       files = [p \in {media[i].Path : i \in present} |->
                  CHOOSE i \in present : media[i].Path = p]
  /\ dirs = {<<"/">>, PathBase, PathSourceDir}
  /\ mounts \in {{}, {PathSourceDir}}
  /\ cancelled = FALSE
  /\ faults = 0
  /\ pc = "idle"
  /\ opts = [TargetBase |-> <<>>, Pattern |-> <<>>, DryRun |-> FALSE]
  /\ tmpl = <<>>
  /\ requests = <<>>
  /\ mediaMap = <<>>
  /\ idx = 0
  /\ summary = NoSummary
  /\ targetPath = <<>>
  /\ actionID = 0
  /\ moveErr = NoErr
  /\ errMsg = NoErr
  /\ events = <<>>
  /\ retErr = NoErr
  /\ ScanIdle

(***************************************************************************)
(* The environment.                                                        *)
(***************************************************************************)
\* The caller cancels the context.
Cancel ==
  /\ pc # "done"
  /\ ~cancelled
  /\ cancelled' = TRUE
  /\ UNCHANGED <<media, actions, files, dirs, mounts, faults, pc, opts, tmpl,
                 requests, mediaMap, idx, summary, targetPath, actionID,
                 moveErr, errMsg, events, retErr>>
  /\ UNCHANGED scanVars

\* Whether a fault may be injected into the step, and the count after it.
MayFault(fault) ==
  /\ fault => faults < MaxFaults
  /\ faults' = IF fault THEN faults + 1 ELSE faults

\* The error of a store statement that caller c runs with ctx on the store
\* it holds: database/sql returns errDBClosed when Close was called on that
\* sql.DB and ctx.Err() when the context is done; otherwise the statement
\* fails only by an injected fault.
StoreErr(c, fault) ==
  IF c \in db.closed THEN ErrClosed
  ELSE IF cancelled THEN ErrCanceled
  ELSE IF fault THEN <<"d", "i", "s", "k", " ", "I", "/", "O", " ", "e", "r", "r", "o", "r">>
  ELSE NoErr

(***************************************************************************)
(* TidyExecutor.Execute.                                                   *)
(***************************************************************************)
\* t.emit(onProgress, progress)
emit(progress) == events' = Append(events, progress)

\* return summary, err
Return(err) ==
  /\ pc' = "done"
  /\ retErr' = err

\* The request, and the resolved row, of the item in flight.
CurReq == requests[idx + 1]
CurFile == mediaMap[CurReq.MediaID]

\* continue: on to the next request, the loop's locals declared afresh.
Continue ==
  /\ idx' = idx + 1
  /\ pc' = "loop"
  /\ targetPath' = <<>>
  /\ actionID' = 0
  /\ moveErr' = NoErr
  /\ errMsg' = NoErr

\* StartExecute without the check of the target base (lines 68-70): a run
\* with an unset base goes on to the lookup and the loop.
StartExecuteNoBaseCheck ==
  /\ pc = "idle"
  /\ \E base \in Bases, pattern \in Patterns, dryRun \in BOOLEAN,
        reqs \in Batches, fault \in BOOLEAN :
       LET used == IF IsBlankPattern(pattern) THEN DefaultPattern
                   ELSE pattern
           ids == [i \in 1..Len(reqs) |-> reqs[i].MediaID]
           reached == Len(reqs) # 0 /\ ParseOK(used)
       IN /\ fault => reached /\ ~cancelled
          /\ MayFault(fault)
          /\ opts' = [TargetBase |-> base, Pattern |-> pattern,
                      DryRun |-> dryRun]
          /\ requests' = reqs
          /\ summary' = [Total |-> Len(reqs), Moved |-> 0, Skipped |-> 0,
                         Failed |-> 0, DryRun |-> dryRun, TargetBase |-> base]
          /\ IF Len(reqs) = 0
             THEN Return(NoErr) /\ UNCHANGED <<tmpl, mediaMap>>
             ELSE IF ~ParseOK(used)
             THEN /\ Return(<<"p", "a", "r", "s", "e", " ", "p", "a", "t", "t", "e", "r", "n", ":", " ", "u", "n", "c", "l", "o", "s", "e", "d", " ", "a", "c", "t", "i", "o", "n">>)
                  /\ UNCHANGED <<tmpl, mediaMap>>
             ELSE IF StoreErr("tidy", fault) # NoErr
             THEN /\ Return(Wrap(<<"g", "e", "t", " ", "m", "e", "d", "i", "a", " ", "b", "y", " ", "i", "d", "s">>, StoreErr("tidy", fault)))
                  /\ tmpl' = used
                  /\ UNCHANGED mediaMap
             ELSE /\ tmpl' = used
                  /\ mediaMap' = GetMediaByIDs(media, ids)
                  /\ pc' = "loop"
                  /\ UNCHANGED retErr
  /\ UNCHANGED <<media, actions, files, dirs, mounts, cancelled, idx, targetPath,
                 actionID, moveErr, errMsg, events>>
  /\ UNCHANGED scanVars

\* Execute is called: lines 63-92.  The empty batch returns at once with no
\* error; an unset target base, a pattern that does not parse and a failed
\* lookup return an error.
StartExecute ==
  /\ pc = "idle"
  /\ \E base \in Bases, pattern \in Patterns, dryRun \in BOOLEAN,
        reqs \in Batches, fault \in BOOLEAN :
       LET used == IF IsBlankPattern(pattern) THEN DefaultPattern
                   ELSE pattern
           ids == [i \in 1..Len(reqs) |-> reqs[i].MediaID]
           reached == Len(reqs) # 0 /\ base # <<>> /\ ParseOK(used)
       IN /\ fault => reached /\ ~cancelled
          /\ MayFault(fault)
          /\ opts' = [TargetBase |-> base, Pattern |-> pattern,
                      DryRun |-> dryRun]
          /\ requests' = reqs
          /\ summary' = [Total |-> Len(reqs), Moved |-> 0, Skipped |-> 0,
                         Failed |-> 0, DryRun |-> dryRun, TargetBase |-> base]
          /\ IF Len(reqs) = 0
             THEN Return(NoErr) /\ UNCHANGED <<tmpl, mediaMap>>
             ELSE IF base = <<>>
             THEN /\ Return(<<"t", "a", "r", "g", "e", "t", " ", "b", "a", "s", "e", " ", "f", "o", "l", "d", "e", "r", " ", "i", "s", " ", "n", "o", "t", " ", "c", "o", "n", "f", "i", "g", "u", "r", "e", "d">>)
                  /\ UNCHANGED <<tmpl, mediaMap>>
             ELSE IF ~ParseOK(used)
             THEN /\ Return(<<"p", "a", "r", "s", "e", " ", "p", "a", "t", "t", "e", "r", "n", ":", " ", "u", "n", "c", "l", "o", "s", "e", "d", " ", "a", "c", "t", "i", "o", "n">>)
                  /\ UNCHANGED <<tmpl, mediaMap>>
             ELSE IF StoreErr("tidy", fault) # NoErr
             THEN /\ Return(Wrap(<<"g", "e", "t", " ", "m", "e", "d", "i", "a", " ", "b", "y", " ", "i", "d", "s">>, StoreErr("tidy", fault)))
                  /\ tmpl' = used
                  /\ UNCHANGED mediaMap
             ELSE /\ tmpl' = used
                  /\ mediaMap' = GetMediaByIDs(media, ids)
                  /\ pc' = "loop"
                  /\ UNCHANGED retErr
  /\ UNCHANGED <<media, actions, files, dirs, mounts, cancelled, idx, targetPath,
                 actionID, moveErr, errMsg, events>>
  /\ UNCHANGED scanVars

\* The top of the loop with a request left: lines 94-99.
AtItem == pc = "loop" /\ idx < Len(requests)

\* The context is done: return summary, ctx.Err().
ItemCancelled ==
  /\ AtItem
  /\ cancelled
  /\ Return(ErrCanceled)
  /\ UNCHANGED <<media, actions, files, dirs, mounts, cancelled, faults, opts, tmpl,
                 requests, mediaMap, idx, summary, targetPath, actionID,
                 moveErr, errMsg, events>>
  /\ UNCHANGED scanVars

\* ItemMissing that gives up the batch: an id with no row ends Execute with
\* an error instead of continuing.
ItemMissingFatal ==
  /\ pc = "loop" /\ idx < Len(requests)
  /\ ~cancelled
  /\ requests[idx + 1].MediaID \notin DOMAIN mediaMap
  /\ summary' = [summary EXCEPT !.Failed = @ + 1]
  /\ Return(<<"m", "e", "d", "i", "a", " ", "m", "e", "t", "a", "d", "a", "t", "a", " ", "n", "o", "t", " ", "f", "o", "u", "n", "d">>)
  /\ UNCHANGED <<media, actions, files, dirs, mounts, cancelled, faults, opts, tmpl,
                 requests, mediaMap, idx, targetPath, actionID, moveErr,
                 errMsg, events>>
  /\ UNCHANGED scanVars

\* The request's id has no row: lines 101-112.
ItemMissing ==
  /\ AtItem
  /\ ~cancelled
  /\ CurReq.MediaID \notin DOMAIN mediaMap
  /\ summary' = [summary EXCEPT !.Failed = @ + 1]
  /\ emit([MediaID |-> CurReq.MediaID, Source |-> <<>>, Target |-> <<>>,
           Completed |-> idx, Total |-> summary.Total, Status |-> "missing",
           Error |-> <<"m", "e", "d", "i", "a", " ", "m", "e", "t", "a", "d", "a", "t", "a", " ", "n", "o", "t", " ", "f", "o", "u", "n", "d">>])
  /\ Continue
  /\ UNCHANGED <<media, actions, files, dirs, mounts, cancelled, faults, opts, tmpl,
                 requests, mediaMap, retErr>>
  /\ UNCHANGED scanVars

\* The request's row is resolved and the context is not done.
Resolved == AtItem /\ ~cancelled /\ CurReq.MediaID \in DOMAIN mediaMap

\* buildTargetPath for the item in flight: line 114.
Plan == buildTargetPath(opts.TargetBase, tmpl, CurFile, files, dirs)

\* buildTargetPath fails: lines 115-126.
ItemPlanFailed ==
  /\ Resolved
  /\ Plan.err # NoErr
  /\ dirs' = Plan.dirs
  /\ summary' = [summary EXCEPT !.Failed = @ + 1]
  /\ emit([MediaID |-> CurFile.ID, Source |-> CurFile.Path, Target |-> <<>>,
           Completed |-> idx, Total |-> summary.Total, Status |-> "failed",
           Error |-> Plan.err])
  /\ Continue
  /\ UNCHANGED <<media, actions, files, mounts, cancelled, faults, opts, tmpl,
                 requests, mediaMap, retErr>>
  /\ UNCHANGED scanVars

\* ItemSkipped that counts the item twice: skipped and moved.
ItemSkippedTwice ==
  /\ pc = "loop" /\ idx < Len(requests)
  /\ ~cancelled /\ requests[idx + 1].MediaID \in DOMAIN mediaMap
  /\ Plan.err = NoErr
  /\ CurFile.Path = Plan.path
  /\ dirs' = Plan.dirs
  /\ summary' = [summary EXCEPT !.Skipped = @ + 1, !.Moved = @ + 1]
  /\ emit([MediaID |-> CurFile.ID, Source |-> CurFile.Path,
           Target |-> Plan.path, Completed |-> idx + 1,
           Total |-> summary.Total, Status |-> "skipped", Error |-> NoErr])
  /\ Continue
  /\ UNCHANGED <<media, actions, files, mounts, cancelled, faults, opts, tmpl,
                 requests, mediaMap, retErr>>
  /\ UNCHANGED scanVars

\* ItemSkipped that writes the FileAction before the test of line 128: the
\* skipped item leaves a pending row.
ItemSkippedRecorded ==
  /\ pc = "loop" /\ idx < Len(requests)
  /\ ~cancelled /\ requests[idx + 1].MediaID \in DOMAIN mediaMap
  /\ Plan.err = NoErr
  /\ CurFile.Path = Plan.path
  /\ dirs' = Plan.dirs
  /\ actions' = CreateAction(actions,
       [ID |-> 0, MediaID |-> CurFile.ID, SourcePath |-> CurFile.Path,
        TargetPath |-> Plan.path, ActionType |-> "move",
        Status |-> ActionStatusPending, ErrorMsg |-> Null,
        ExecutedAt |-> FALSE, HashMD5 |-> CurFile.HashMD5])
  /\ summary' = [summary EXCEPT !.Skipped = @ + 1]
  /\ emit([MediaID |-> CurFile.ID, Source |-> CurFile.Path,
           Target |-> Plan.path, Completed |-> idx + 1,
           Total |-> summary.Total, Status |-> "skipped", Error |-> NoErr])
  /\ Continue
  /\ UNCHANGED <<media, files, mounts, cancelled, faults, opts, tmpl,
                 requests, mediaMap, retErr>>
  /\ UNCHANGED scanVars

\* The planned path is the file's path: lines 128-139.
ItemSkipped ==
  /\ Resolved
  /\ Plan.err = NoErr
  /\ CurFile.Path = Plan.path
  /\ dirs' = Plan.dirs
  /\ summary' = [summary EXCEPT !.Skipped = @ + 1]
  /\ emit([MediaID |-> CurFile.ID, Source |-> CurFile.Path,
           Target |-> Plan.path, Completed |-> idx + 1,
           Total |-> summary.Total, Status |-> "skipped", Error |-> NoErr])
  /\ Continue
  /\ UNCHANGED <<media, actions, files, mounts, cancelled, faults, opts, tmpl,
                 requests, mediaMap, retErr>>
  /\ UNCHANGED scanVars

\* ItemPlanned that writes the FileAction all the same: the dry-run test of
\* line 142 left out.
ItemPlannedRecorded ==
  /\ Resolved
  /\ Plan.err = NoErr
  /\ CurFile.Path # Plan.path
  /\ opts.DryRun
  /\ dirs' = Plan.dirs
  /\ actions' = CreateAction(actions,
                             [ID |-> 0, MediaID |-> CurFile.ID,
                              SourcePath |-> CurFile.Path,
                              TargetPath |-> Plan.path, ActionType |-> "move",
                              Status |-> ActionStatusPending,
                              ErrorMsg |-> Null, ExecutedAt |-> FALSE,
                              HashMD5 |-> CurFile.HashMD5])
  /\ summary' = [summary EXCEPT !.Moved = @ + 1]
  /\ emit([MediaID |-> CurFile.ID, Source |-> CurFile.Path,
           Target |-> Plan.path, Completed |-> idx + 1,
           Total |-> summary.Total, Status |-> "planned", Error |-> NoErr])
  /\ Continue
  /\ UNCHANGED <<media, files, mounts, cancelled, faults, opts, tmpl,
                 requests, mediaMap, retErr>>
  /\ UNCHANGED scanVars

\* A dry run: no action is recorded, nothing is moved, no path is updated;
\* the item is counted moved and reported "planned": lines 141-221 with
\* opts.DryRun.
ItemPlanned ==
  /\ Resolved
  /\ Plan.err = NoErr
  /\ CurFile.Path # Plan.path
  /\ opts.DryRun
  /\ dirs' = Plan.dirs
  /\ summary' = [summary EXCEPT !.Moved = @ + 1]
  /\ emit([MediaID |-> CurFile.ID, Source |-> CurFile.Path,
           Target |-> Plan.path, Completed |-> idx + 1,
           Total |-> summary.Total, Status |-> "planned", Error |-> NoErr])
  /\ Continue
  /\ UNCHANGED <<media, actions, files, mounts, cancelled, faults, opts, tmpl,
                 requests, mediaMap, retErr>>
  /\ UNCHANGED scanVars

\* A live run: the item is planned and goes on to CreateAction.
ItemPlannedLive ==
  /\ Resolved
  /\ Plan.err = NoErr
  /\ CurFile.Path # Plan.path
  /\ ~opts.DryRun
  /\ dirs' = Plan.dirs
  /\ targetPath' = Plan.path
  /\ pc' = "record"
  /\ UNCHANGED <<media, actions, files, mounts, cancelled, faults, opts, tmpl,
                 requests, mediaMap, idx, summary, actionID, moveErr, errMsg,
                 events, retErr>>
  /\ UNCHANGED scanVars

\* The FileAction Execute writes ahead of the move: lines 143-150.
PendingAction ==
  [ID |-> 0, MediaID |-> CurFile.ID, SourcePath |-> CurFile.Path,
   TargetPath |-> targetPath, ActionType |-> "move",
   Status |-> ActionStatusPending, ErrorMsg |-> Null, ExecutedAt |-> FALSE,
   HashMD5 |-> CurFile.HashMD5]

\* RecordAction without its error check: a failed CreateAction is ignored
\* and Execute goes on to moveFile with no row written.
RecordActionUnchecked ==
  /\ pc = "record"
  /\ \E fault \in BOOLEAN :
       /\ fault => ~cancelled
       /\ MayFault(fault)
       /\ IF StoreErr("tidy", fault) # NoErr
          THEN UNCHANGED <<actions, actionID>>
          ELSE /\ actions' = CreateAction(actions, PendingAction)
               /\ actionID' = Len(actions) + 1
       /\ pc' = "move"
  /\ UNCHANGED <<media, files, dirs, mounts, cancelled, opts, tmpl, requests,
                 mediaMap, retErr, idx, summary, targetPath, moveErr, errMsg,
                 events>>
  /\ UNCHANGED scanVars

\* t.store.CreateAction: lines 142-164.  On an error the item is counted
\* failed and the loop continues; otherwise the move is next.
RecordAction ==
  /\ pc = "record"
  /\ \E fault \in BOOLEAN :
       /\ fault => ~cancelled
       /\ MayFault(fault)
       /\ IF StoreErr("tidy", fault) # NoErr
          THEN /\ summary' = [summary EXCEPT !.Failed = @ + 1]
               /\ emit([MediaID |-> CurFile.ID, Source |-> CurFile.Path,
                        Target |-> targetPath, Completed |-> idx,
                        Total |-> summary.Total, Status |-> "failed",
                        Error |-> Wrap(<<"r", "e", "c", "o", "r", "d", " ", "a", "c", "t", "i", "o", "n">>,
                                       Wrap(<<"i", "n", "s", "e", "r", "t", " ", "a", "c", "t", "i", "o", "n">>,
                                            StoreErr("tidy", fault)))])
               /\ Continue
               /\ UNCHANGED actions
          ELSE /\ actions' = CreateAction(actions, PendingAction)
               /\ actionID' = Len(actions) + 1
               /\ pc' = "move"
               /\ UNCHANGED <<idx, summary, targetPath, moveErr, errMsg,
                              events>>
  /\ UNCHANGED <<media, files, dirs, mounts, cancelled, opts, tmpl, requests,
                 mediaMap, retErr>>
  /\ UNCHANGED scanVars

(***************************************************************************)
(* moveFile(file.Path, targetPath), one file system call at a time.        *)
(***************************************************************************)
\* The file system after os.Rename(src, dest) succeeds: dest holds what
\* src held (a file already at dest is replaced) and src is gone.
Renamed(f, src, dest) ==
  [p \in (DOMAIN f \ {src}) \cup {dest} |-> IF p = dest THEN f[src] ELSE f[p]]

\* The file system with path holding content.
Written(f, path, content) ==
  [p \in DOMAIN f \cup {path} |-> IF p = path THEN content ELSE f[p]]

\* The file system after os.Remove(path) succeeds.
Removed(f, path) == [p \in DOMAIN f \ {path} |-> f[p]]

\* The device a path is on: the second below a mount point, else the first.
Device(p) ==
  IF \E m \in mounts : m = p \/ m \in Ancestors(p) THEN 2 ELSE 1

\* os.Rename: lines 291-295.  It fails with ENOENT when the source does
\* not exist and with EXDEV when source and destination are on different
\* devices, and may fail with EACCES.  Success ends moveFile; an error that
\* isCrossDeviceError accepts goes on to the copy, any other ends moveFile
\* with that error.
MoveRename ==
  /\ pc = "move"
  /\ \E fault \in BOOLEAN :
       LET src == CurFile.Path
           err == IF src \notin DOMAIN files
                  THEN LinkError(<<"r", "e", "n", "a", "m", "e">>, src, targetPath, ENOENT)
                  ELSE IF Device(src) # Device(targetPath)
                  THEN LinkError(<<"r", "e", "n", "a", "m", "e">>, src, targetPath, EXDEV)
                  ELSE IF fault
                  THEN LinkError(<<"r", "e", "n", "a", "m", "e">>, src, targetPath, EACCES)
                  ELSE NoErr
       IN /\ fault => src \in DOMAIN files /\ Device(src) = Device(targetPath)
          /\ MayFault(fault)
          /\ IF err = NoErr
             THEN /\ files' = Renamed(files, src, targetPath)
                  /\ pc' = "update"
                  /\ UNCHANGED moveErr
             ELSE IF ~isCrossDeviceError(err)
             THEN /\ moveErr' = err
                  /\ pc' = "move_failed"
                  /\ UNCHANGED files
             ELSE /\ pc' = "copy_create"
                  /\ UNCHANGED <<files, moveErr>>
  /\ UNCHANGED <<media, actions, dirs, mounts, cancelled, opts, tmpl,
                 requests, mediaMap, idx, summary, targetPath, actionID,
                 errMsg, events, retErr>>
  /\ UNCHANGED scanVars

\* os.Open(src) and os.Create(dest): lines 297-306.  Create leaves an
\* empty file at dest.
CopyCreate ==
  /\ pc = "copy_create"
  /\ \E outcome \in {"ok", "open", "create"} :
       LET src == CurFile.Path
           err == IF src \notin DOMAIN files
                  THEN PathError(<<"o", "p", "e", "n">>, src, ENOENT)
                  ELSE IF outcome = "open"
                  THEN PathError(<<"o", "p", "e", "n">>, src, EACCES)
                  ELSE IF outcome = "create"
                  THEN PathError(<<"o", "p", "e", "n">>, targetPath, EACCES)
                  ELSE NoErr
       IN /\ outcome # "ok" => src \in DOMAIN files
          /\ MayFault(outcome # "ok")
          /\ IF err = NoErr
             THEN /\ files' = Written(files, targetPath, Partial)
                  /\ pc' = "copy_write"
                  /\ UNCHANGED moveErr
             ELSE /\ moveErr' = err
                  /\ pc' = "move_failed"
                  /\ UNCHANGED files
  /\ UNCHANGED <<media, actions, dirs, mounts, cancelled, opts, tmpl, requests,
                 mediaMap, idx, summary, targetPath, actionID, errMsg, events,
                 retErr>>
  /\ UNCHANGED scanVars

\* CopyWrite that removes the source when io.Copy fails: the bytes are then
\* whole at neither path.
CopyWriteDropping ==
  /\ pc = "copy_write"
  /\ \E outcome \in {"ok", "copy", "close"} :
       LET src == CurFile.Path IN
       /\ MayFault(outcome # "ok")
       /\ IF outcome = "copy"
          THEN /\ moveErr' = PathError(<<"w", "r", "i", "t", "e">>, targetPath, EIO)
               /\ pc' = "move_failed"
               /\ files' = Removed(files, src)
          ELSE IF outcome = "close"
          THEN /\ files' = Written(files, targetPath, files[src])
               /\ moveErr' = PathError(<<"c", "l", "o", "s", "e">>, targetPath, EIO)
               /\ pc' = "move_failed"
          ELSE /\ files' = Written(files, targetPath, files[src])
               /\ pc' = "copy_remove"
               /\ UNCHANGED moveErr
  /\ UNCHANGED <<media, actions, dirs, mounts, cancelled, opts, tmpl, requests,
                 mediaMap, idx, summary, targetPath, actionID, errMsg, events,
                 retErr>>
  /\ UNCHANGED scanVars

\* io.Copy(destFile, sourceFile) and destFile.Close(): lines 307-313.  A
\* failed copy leaves dest partly written; a failed Close ends moveFile
\* after the bytes were written.
CopyWrite ==
  /\ pc = "copy_write"
  /\ \E outcome \in {"ok", "copy", "close"} :
       LET src == CurFile.Path IN
       /\ MayFault(outcome # "ok")
       /\ IF outcome = "copy"
          THEN /\ moveErr' = PathError(<<"w", "r", "i", "t", "e">>, targetPath, EIO)
               /\ pc' = "move_failed"
               /\ UNCHANGED files
          ELSE IF outcome = "close"
          THEN /\ files' = Written(files, targetPath, files[src])
               /\ moveErr' = PathError(<<"c", "l", "o", "s", "e">>, targetPath, EIO)
               /\ pc' = "move_failed"
          ELSE /\ files' = Written(files, targetPath, files[src])
               /\ pc' = "copy_remove"
               /\ UNCHANGED moveErr
  /\ UNCHANGED <<media, actions, dirs, mounts, cancelled, opts, tmpl, requests,
                 mediaMap, idx, summary, targetPath, actionID, errMsg, events,
                 retErr>>
  /\ UNCHANGED scanVars

\* os.Remove(src): lines 315-318.
CopyRemove ==
  /\ pc = "copy_remove"
  /\ \E fault \in BOOLEAN :
       LET src == CurFile.Path IN
       /\ MayFault(fault)
       /\ IF fault
          THEN /\ moveErr' = Wrap(<<"r", "e", "m", "o", "v", "e", " ", "s", "o", "u", "r", "c", "e", " ", "a", "f", "t", "e", "r", " ", "c", "o", "p", "y">>,
                                  PathError(<<"r", "e", "m", "o", "v", "e">>, src, EACCES))
               /\ pc' = "move_failed"
               /\ UNCHANGED files
          ELSE /\ files' = Removed(files, src)
               /\ pc' = "update"
               /\ UNCHANGED moveErr
  /\ UNCHANGED <<media, actions, dirs, mounts, cancelled, opts, tmpl, requests,
                 mediaMap, idx, summary, targetPath, actionID, errMsg, events,
                 retErr>>
  /\ UNCHANGED scanVars

(***************************************************************************)
(* Execute after moveFile has returned.                                    *)
(***************************************************************************)
\* t.store.MarkAction, its error dropped as Execute drops it: the table
\* after the call.
MarkDropped(id, status, msg, fault) ==
  IF StoreErr("tidy", fault) # NoErr THEN actions
  ELSE MarkAction(actions, id, status, msg)

\* moveErr != nil: lines 174-190.
MoveFailed ==
  /\ pc = "move_failed"
  /\ \E fault \in BOOLEAN :
       LET msg == truncateError(moveErr) IN
       /\ fault => ~cancelled /\ actionID # 0
       /\ MayFault(fault)
       /\ summary' = [summary EXCEPT !.Failed = @ + 1]
       /\ actions' = IF actionID # 0
                     THEN MarkDropped(actionID, ActionStatusFailed,
                                      [Valid |-> TRUE, String |-> msg], fault)
                     ELSE actions
       /\ emit([MediaID |-> CurFile.ID, Source |-> CurFile.Path,
                Target |-> targetPath, Completed |-> idx + 1,
                Total |-> summary.Total, Status |-> "failed", Error |-> msg])
       /\ Continue
  /\ UNCHANGED <<media, files, dirs, mounts, cancelled, opts, tmpl, requests,
                 mediaMap, retErr>>
  /\ UNCHANGED scanVars

\* UpdatePath without its error check: a failed UpdateMediaPath is ignored
\* and Execute goes on to mark the action completed.
UpdatePathUnchecked ==
  /\ pc = "update"
  /\ \E fault \in BOOLEAN :
       LET err == IF StoreErr("tidy", fault) # NoErr THEN StoreErr("tidy", fault)
                  ELSE IF PathTaken(media, CurFile.ID, targetPath)
                  THEN ErrUniquePath
                  ELSE NoErr
       IN /\ fault => ~cancelled
          /\ MayFault(fault)
          /\ media' = IF err # NoErr THEN media
                      ELSE UpdateMediaPath(media, CurFile.ID, targetPath)
          /\ pc' = "mark_completed"
  /\ UNCHANGED <<actions, files, dirs, mounts, cancelled, opts, tmpl, requests,
                 mediaMap, idx, summary, targetPath, actionID, moveErr,
                 errMsg, events, retErr>>
  /\ UNCHANGED scanVars

\* t.store.UpdateMediaPath(ctx, file.ID, targetPath): line 193.
UpdatePath ==
  /\ pc = "update"
  /\ \E fault \in BOOLEAN :
       LET err == IF StoreErr("tidy", fault) # NoErr THEN StoreErr("tidy", fault)
                  ELSE IF PathTaken(media, CurFile.ID, targetPath)
                  THEN ErrUniquePath
                  ELSE NoErr
       IN /\ fault => ~cancelled
          /\ MayFault(fault)
          /\ IF err # NoErr
             THEN /\ errMsg' = Wrap(<<"u", "p", "d", "a", "t", "e", " ", "m", "e", "d", "i", "a", " ", "p", "a", "t", "h">>,
                                    Wrap(<<"u", "p", "d", "a", "t", "e", " ", "m", "e", "d", "i", "a", " ", "p", "a", "t", "h">>, err))
                  /\ pc' = "update_failed"
                  /\ UNCHANGED media
             ELSE /\ media' = UpdateMediaPath(media, CurFile.ID, targetPath)
                  /\ pc' = "mark_completed"
                  /\ UNCHANGED errMsg
  /\ UNCHANGED <<actions, files, dirs, mounts, cancelled, opts, tmpl, requests,
                 mediaMap, idx, summary, targetPath, actionID, moveErr,
                 events, retErr>>
  /\ UNCHANGED scanVars

\* UpdateMediaPath failed: lines 194-208.
UpdateFailed ==
  /\ pc = "update_failed"
  /\ \E fault \in BOOLEAN :
       /\ fault => ~cancelled /\ actionID # 0
       /\ MayFault(fault)
       /\ actions' = IF actionID # 0
                     THEN MarkDropped(actionID, ActionStatusFailed,
                                      [Valid |-> TRUE, String |-> errMsg],
                                      fault)
                     ELSE actions
       /\ summary' = [summary EXCEPT !.Failed = @ + 1]
       /\ emit([MediaID |-> CurFile.ID, Source |-> CurFile.Path,
                Target |-> targetPath, Completed |-> idx + 1,
                Total |-> summary.Total, Status |-> "failed",
                Error |-> errMsg])
       /\ Continue
  /\ UNCHANGED <<media, files, dirs, mounts, cancelled, opts, tmpl, requests,
                 mediaMap, retErr>>
  /\ UNCHANGED scanVars

\* The move and the path update succeeded: lines 210-221.
MarkCompleted ==
  /\ pc = "mark_completed"
  /\ \E fault \in BOOLEAN :
       /\ fault => ~cancelled
       /\ MayFault(fault)
       /\ actions' = MarkDropped(actionID, ActionStatusCompleted, Null, fault)
       /\ summary' = [summary EXCEPT !.Moved = @ + 1]
       /\ emit([MediaID |-> CurFile.ID, Source |-> CurFile.Path,
                Target |-> targetPath, Completed |-> idx + 1,
                Total |-> summary.Total, Status |-> "moved",
                Error |-> NoErr])
       /\ Continue
  /\ UNCHANGED <<media, files, dirs, mounts, cancelled, opts, tmpl, requests,
                 mediaMap, retErr>>
  /\ UNCHANGED scanVars

\* Every request was processed: lines 224-225.
Finish ==
  /\ pc = "loop"
  /\ idx = Len(requests)
  /\ Return(NoErr)
  /\ UNCHANGED <<media, actions, files, dirs, mounts, cancelled, faults, opts, tmpl,
                 requests, mediaMap, idx, summary, targetPath, actionID,
                 moveErr, errMsg, events>>
  /\ UNCHANGED scanVars

Next ==
  \/ Cancel
  \/ StartExecute
  \/ ItemCancelled
  \/ ItemMissing
  \/ ItemPlanFailed
  \/ ItemSkipped
  \/ ItemPlanned
  \/ ItemPlannedLive
  \/ RecordAction
  \/ MoveRename
  \/ CopyCreate
  \/ CopyWrite
  \/ CopyRemove
  \/ MoveFailed
  \/ UpdatePath
  \/ UpdateFailed
  \/ MarkCompleted
  \/ Finish

Spec == Init /\ [][Next]_vars

(***************************************************************************)
(* A second library: the source folder of the second file is named         *)
(* "cross-device", on the same device as the target base or on another.    *)
(* The text of every os.LinkError of a rename from it holds the folder's   *)
(* name.                                                                   *)
(***************************************************************************)
InitNamed ==
  LET PathNamedDir == <<"/", "c", "r", "o", "s", "s", "-", "d", "e", "v", "i", "c", "e">>
      PathNamed == PathNamedDir \o <<"/", "a", ".", "j">>
  IN
     /\ media = <<Row1, [Row2 EXCEPT !.Path = PathNamed]>>
     /\ actions = PriorActions
     /\ files = [p \in {PathTidied, PathNamed} |->
                   IF p = PathTidied THEN 1 ELSE 2]
     /\ dirs = {<<"/">>, PathBase, PathNamedDir}
     /\ mounts \in {{}, {PathNamedDir}}
     /\ cancelled = FALSE
     /\ faults = 0
     /\ pc = "idle"
     /\ opts = [TargetBase |-> <<>>, Pattern |-> <<>>, DryRun |-> FALSE]
     /\ tmpl = <<>>
     /\ requests = <<>>
     /\ mediaMap = <<>>
     /\ idx = 0
     /\ summary = NoSummary
     /\ targetPath = <<>>
     /\ actionID = 0
     /\ moveErr = NoErr
     /\ errMsg = NoErr
     /\ events = <<>>
     /\ retErr = NoErr
     /\ ScanIdle

SpecNamed == InitNamed /\ [][Next]_vars

(***************************************************************************)
(* A third library: the second file is named ":", a name Linux and macOS   *)
(* allow and every character of which sanitizeSegment deletes.             *)
(***************************************************************************)
InitColon ==
  /\ media = <<Row1, [Row2 EXCEPT !.Path = <<"/", "s", "/", ":">>]>>
  /\ actions = PriorActions
  /\ \E present \in Present :
       files = [p \in {media[i].Path : i \in present} |->
                  CHOOSE i \in present : media[i].Path = p]
  /\ dirs = {<<"/">>, PathBase, PathSourceDir}
  /\ mounts \in {{}, {PathSourceDir}}
  /\ cancelled = FALSE
  /\ faults = 0
  /\ pc = "idle"
  /\ opts = [TargetBase |-> <<>>, Pattern |-> <<>>, DryRun |-> FALSE]
  /\ tmpl = <<>>
  /\ requests = <<>>
  /\ mediaMap = <<>>
  /\ idx = 0
  /\ summary = NoSummary
  /\ targetPath = <<>>
  /\ actionID = 0
  /\ moveErr = NoErr
  /\ errMsg = NoErr
  /\ events = <<>>
  /\ retErr = NoErr
  /\ ScanIdle

SpecColon == InitColon /\ [][Next]_vars

(***************************************************************************)
(* A fourth library: the second file has a name so long that the text of   *)
(* an os.LinkError of a rename of it is longer than TruncateLimit (the     *)
(* runs over it are those of SpecLong below).                              *)
(***************************************************************************)
InitLong ==
  LET LongName == [i \in 1..MaxName |-> "x"] \o <<".", "j">>
  IN
     /\ media = <<Row1, [Row2 EXCEPT !.Path = PathSourceDir \o <<"/">> \o LongName]>>
     /\ actions = PriorActions
     /\ \E present \in Present :
          files = [p \in {media[i].Path : i \in present} |->
                     CHOOSE i \in present : media[i].Path = p]
     /\ dirs = {<<"/">>, PathBase, PathSourceDir}
     /\ mounts \in {{}, {PathSourceDir}}
     /\ cancelled = FALSE
     /\ faults = 0
     /\ pc = "idle"
     /\ opts = [TargetBase |-> <<>>, Pattern |-> <<>>, DryRun |-> FALSE]
     /\ tmpl = <<>>
     /\ requests = <<>>
     /\ mediaMap = <<>>
     /\ idx = 0
     /\ summary = NoSummary
     /\ targetPath = <<>>
     /\ actionID = 0
     /\ moveErr = NoErr
     /\ errMsg = NoErr
     /\ events = <<>>
     /\ retErr = NoErr
     /\ ScanIdle

(***************************************************************************)
(* The scanner: internal/media, Scanner.Scan.                              *)
(***************************************************************************)
\* computeMD5: the hash of the bytes.  The contents 1, 3 and 5 are copies
\* of one photo.
Md5(content) == <<"c">> \o Itoa(IF content \in {1, 3, 5} THEN 1 ELSE content)

\* filepath.Abs of a path: an absolute path is cleaned, a relative one is
\* joined to the working directory, here the root.
Abs(p) ==
  IF p # <<>> /\ p[1] = "/" THEN Clean(p) ELSE Join(<<<<"/">>, p>>)

\* The extSet of Scan: lines 63-73.
ExtSet(extensions) ==
  LET trimmed(e) == TrimSpace(ToLower(e))
  IN {IF HasPrefix(trimmed(extensions[i]), <<".">>)
      THEN trimmed(extensions[i])
      ELSE <<".">> \o trimmed(extensions[i]) :
        i \in {j \in DOMAIN extensions : trimmed(extensions[j]) # <<>>}}

\* What a path names once symbolic links are followed (os.Stat, os.Open).
Resolve(p) == IF p \in DOMAIN links THEN links[p] ELSE p

\* The entries of a directory.
Entries(dir) ==
  {p \in DOMAIN files \cup dirs \cup DOMAIN links : p # dir /\ Dir(p) = dir}

\* The paths of S in the order of their file names: os.ReadDir sorts the
\* entries by name.
RECURSIVE SortedByName(_)
SortedByName(S) ==
  IF S = {} THEN <<>>
  ELSE LET first == CHOOSE p \in S :
                      \A q \in S \ {p} : StrLess(Base(p), Base(q))
       IN <<first>> \o SortedByName(S \ {first})

\* Scanner.buildMediaFile: lines 178-209.  os.Stat and computeMD5 follow
\* a symbolic link; either fails when nothing is there, and may fail.  The
\* size and the modification time are those of the file as written, the
\* capture time is in the bytes of the first photo only.
buildMediaFile(path, fault) ==
  LET absolute == Abs(path)
      there == Resolve(absolute) \in DOMAIN files
      content == files[Resolve(absolute)]
  IN IF ~there
     THEN [err |-> PathError(<<"s", "t", "a", "t">>, absolute, ENOENT),
           file |-> NoFile]
     ELSE IF fault
     THEN [err |-> PathError(<<"o", "p", "e", "n">>, absolute, EACCES),
           file |-> NoFile]
     ELSE [err |-> NoErr,
           file |-> [ID |-> 0, Path |-> absolute, HashMD5 |-> Md5(content),
                     SizeBytes |-> 100 * content,
                     ModTime |-> [y |-> 2024, m |-> content + 1, d |-> 1],
                     TakenAt |-> IF content = 1
                                 THEN [Valid |-> TRUE,
                                       Time |-> [y |-> 2024, m |-> 1, d |-> 5]]
                                 ELSE NullTime]]

\* The state a scan starts from: a new database, no tidy run, and a small
\* photo collection on disk: the folder /p with three files, a folder and a
\* symbolic link in it, and the folder /q with one file; a content is the
\* number of a file as it was written, and the files 1, 3 and 5 hold the
\* same bytes.  The options of the scans name the source folders (one
\* folder; two, the first written with a trailing slash; one that does not
\* exist and one that does; a file and a folder), the extension allow-list
\* (none; one entry to be trimmed, lower-cased and dot-prefixed; an empty
\* entry and another extension; one entry of white space) and whether
\* links are followed.
ScanInit ==
  /\ media = <<>>
  /\ actions = <<>>
  /\ files = (<<"/", "p", "/", "a", ".", "j">> :> 1) @@ (<<"/", "p", "/", "b", ".", "J">> :> 3) @@ (<<"/", "p", "/", "d", "/", "c", ".", "j">> :> 2)
               @@ (<<"/", "p", "/", "e", ".", "t">> :> 4) @@ (<<"/", "q", "/", "a", ".", "j">> :> 5)
  /\ dirs = {<<"/">>, <<"/", "p">>, <<"/", "p", "/", "d">>, <<"/", "q">>}
  /\ mounts = {}
  /\ cancelled = FALSE
  /\ faults = 0
  /\ pc = "idle"
  /\ opts = [TargetBase |-> <<>>, Pattern |-> <<>>, DryRun |-> FALSE]
  /\ tmpl = <<>>
  /\ requests = <<>>
  /\ mediaMap = <<>>
  /\ idx = 0
  /\ summary = NoSummary
  /\ targetPath = <<>>
  /\ actionID = 0
  /\ moveErr = NoErr
  /\ errMsg = NoErr
  /\ events = <<>>
  /\ retErr = NoErr
  /\ links = (<<"/", "p", "/", "l", ".", "j">> :> <<"/", "p", "/", "d", "/", "c", ".", "j">>)
  /\ \E sources \in {<<<<"/", "p">>>>,
                     <<<<"/", "q", "/">>, <<"/", "p">>>>,
                     <<<<"/", "n">>, <<"/", "q">>>>,
                     <<<<"/", "p", "/", "e", ".", "t">>, <<"/", "q">>>>},
        extensions \in {<<>>, <<<<" ", "J">>>>, <<<<>>, <<".", "t">>>>,
                        <<<<" ">>>>},
        follow \in BOOLEAN :
       scanOpts = [Sources |-> sources, Extensions |-> extensions,
                   FollowSymlinks |-> follow]
  /\ scanPC = "idle"
  /\ srcIdx = 0
  /\ todo = <<>>
  /\ built = NoFile
  /\ fileCounter = 0
  /\ persistCounter = 0
  /\ scanSummary = NoScanSummary
  /\ scanEvents = <<>>
  /\ scanResults = <<>>
  /\ dupResult = [groups |-> <<>>, err |-> NoErr]
  /\ db = DBOpened
  /\ settings = [File |-> <<>>, IncludeExtensions |-> <<>>]

\* What no step of the scanner changes: the tidy executor and its ledger,
\* and the file system.
scanFrame == <<actions, pc, opts, tmpl, requests, mediaMap, idx, summary,
               targetPath, actionID, moveErr, errMsg, events, retErr,
               files, dirs, mounts, links, settings, db>>

\* summary.Errors = append(summary.Errors, msg)
LogError(msg) ==
  scanSummary' = [scanSummary EXCEPT !.Errors = Append(@, msg)]

\* return summary, err
ScanReturn(sm, err) ==
  /\ scanPC' = "done"
  /\ scanResults' = Append(scanResults, [summary |-> sm, err |-> err])

\* Scan is called with the options: lines 59-76.
StartScan ==
  /\ scanPC \in {"idle", "done"}
  /\ Len(scanResults) < MaxScans
  /\ scanPC' = "source"
  /\ srcIdx' = 0
  /\ todo' = <<>>
  /\ built' = NoFile
  /\ fileCounter' = 0
  /\ persistCounter' = 0
  /\ scanSummary' = NoScanSummary
  /\ scanEvents' = <<>>
  /\ UNCHANGED <<media, cancelled, faults, scanOpts, scanResults, dupResult>>
  /\ UNCHANGED scanFrame

\* The top of the loop over the sources with a source left, and the source.
AtSource == scanPC = "source" /\ srcIdx < Len(scanOpts.Sources)
CurSource == scanOpts.Sources[srcIdx + 1]

\* The context is done between two source roots: lines 79-81.
SourceCancelled ==
  /\ AtSource
  /\ cancelled
  /\ ScanReturn(scanSummary, ErrCanceled)
  /\ UNCHANGED <<media, cancelled, faults, scanOpts, srcIdx, todo, built,
                 fileCounter, persistCounter, scanSummary, scanEvents,
                 dupResult>>
  /\ UNCHANGED scanFrame

\* The source root cannot be scanned: os.Stat fails, or it is not a
\* directory: lines 83-97.
SourceInvalid ==
  /\ AtSource
  /\ ~cancelled
  /\ \E fault \in BOOLEAN :
       LET absSrc == Abs(CurSource)
           exists == Resolve(absSrc) \in DOMAIN files \cup dirs
       IN /\ fault => exists
          /\ MayFault(fault)
          /\ ~exists \/ fault \/ Resolve(absSrc) \notin dirs
          /\ LogError(IF ~exists
                      THEN Wrap(<<"s", "t", "a", "t", " ">> \o absSrc,
                                PathError(<<"s", "t", "a", "t">>, absSrc, ENOENT))
                      ELSE IF fault
                      THEN Wrap(<<"s", "t", "a", "t", " ">> \o absSrc,
                                PathError(<<"s", "t", "a", "t">>, absSrc, EACCES))
                      ELSE absSrc \o <<" ", "i", "s", " ", "n", "o", "t", " ", "a", " ", "d", "i", "r", "e", "c", "t", "o", "r", "y">>)
  /\ srcIdx' = srcIdx + 1
  /\ UNCHANGED <<media, cancelled, scanOpts, scanPC, todo, built, fileCounter,
                 persistCounter, scanEvents, scanResults, dupResult>>
  /\ UNCHANGED scanFrame

\* The source root is a directory: filepath.WalkDir starts at it: line 99.
SourceWalk ==
  /\ AtSource
  /\ ~cancelled
  /\ Resolve(Abs(CurSource)) \in dirs
  /\ todo' = <<Abs(CurSource)>>
  /\ scanPC' = "walk"
  /\ UNCHANGED <<media, cancelled, faults, scanOpts, srcIdx, built,
                 fileCounter, persistCounter, scanSummary, scanEvents,
                 scanResults, dupResult>>
  /\ UNCHANGED scanFrame

\* WalkDir has an entry to hand to the callback, and the entry.
AtEntry == scanPC = "walk" /\ todo # <<>>
CurEntry == Head(todo)

\* The entry is a symbolic link, a directory, a file the allow-list accepts.
IsLink(p) == p \in DOMAIN links
IsDirectory(p) == p \in dirs /\ ~IsLink(p)
AcceptedExactCase(p) ==
  LET extSet == ExtSet(scanOpts.Extensions)
  IN extSet = {} \/ Ext(Base(p)) \in extSet
Accepted(p) ==
  LET extSet == ExtSet(scanOpts.Extensions)
  IN extSet = {} \/ ToLower(Ext(Base(p))) \in extSet

\* The callback on a directory returns nil and WalkDir reads the directory:
\* lines 113-115 and 100-103.  When os.ReadDir fails the callback is called again with
\* the error, logs it, and the walk goes on with the entries that follow.
WalkDirectory ==
  /\ AtEntry
  /\ IsDirectory(CurEntry)
  /\ \E fault \in BOOLEAN :
       /\ MayFault(fault)
       /\ IF fault
          THEN /\ LogError(Wrap(<<"w", "a", "l", "k", " ">> \o CurEntry,
                                PathError(<<"o", "p", "e", "n">>, CurEntry, EACCES)))
               /\ todo' = Tail(todo)
          ELSE /\ todo' = SortedByName(Entries(CurEntry)) \o Tail(todo)
               /\ UNCHANGED scanSummary
  /\ UNCHANGED <<media, cancelled, scanOpts, scanPC, srcIdx, built,
                 fileCounter, persistCounter, scanEvents, scanResults,
                 dupResult>>
  /\ UNCHANGED scanFrame

\* A symbolic link while links are not followed, or a file the allow-list
\* rejects, is counted skipped: lines 105-111 and 117-123.
WalkSkipped ==
  /\ AtEntry
  /\ ~IsDirectory(CurEntry)
  /\ \/ IsLink(CurEntry) /\ ~scanOpts.FollowSymlinks
     \/ ~Accepted(CurEntry)
  /\ scanSummary' = [scanSummary EXCEPT !.FilesSkipped = @ + 1]
  /\ todo' = Tail(todo)
  /\ UNCHANGED <<media, cancelled, faults, scanOpts, scanPC, srcIdx, built,
                 fileCounter, persistCounter, scanEvents, scanResults,
                 dupResult>>
  /\ UNCHANGED scanFrame

\* The entry is a file to scan.
AtFile ==
  /\ AtEntry
  /\ ~IsDirectory(CurEntry)
  /\ IsLink(CurEntry) => scanOpts.FollowSymlinks
  /\ Accepted(CurEntry)

\* The context is done between two files: the callback returns ctx.Err(),
\* WalkDir returns it and Scan returns the summary with it: lines 125-129
\* and 156-159.
WalkCancelled ==
  /\ AtFile
  /\ cancelled
  /\ ScanReturn(scanSummary, ErrCanceled)
  /\ UNCHANGED <<media, cancelled, faults, scanOpts, srcIdx, todo, built,
                 fileCounter, persistCounter, scanSummary, scanEvents,
                 dupResult>>
  /\ UNCHANGED scanFrame

\* WalkFile with a walk that ends at the first file whose metadata cannot
\* be read.
WalkFileStops ==
  /\ AtFile
  /\ ~cancelled
  /\ \E fault \in BOOLEAN :
       LET res == buildMediaFile(CurEntry, fault) IN
       /\ fault => Resolve(Abs(CurEntry)) \in DOMAIN files
       /\ MayFault(fault)
       /\ fileCounter' = fileCounter + 1
       /\ IF res.err # NoErr
          THEN /\ LogError(Wrap(<<"m", "e", "t", "a", "d", "a", "t", "a", " ">> \o CurEntry,
                                res.err))
               /\ todo' = <<>>
               /\ UNCHANGED <<built, scanPC>>
          ELSE /\ built' = res.file
               /\ scanPC' = "persist"
               /\ UNCHANGED <<todo, scanSummary>>
  /\ UNCHANGED <<media, cancelled, scanOpts, srcIdx, persistCounter,
                 scanEvents, scanResults, dupResult>>
  /\ UNCHANGED scanFrame

\* The file is counted and buildMediaFile is called: lines 131-137.
WalkFile ==
  /\ AtFile
  /\ ~cancelled
  /\ \E fault \in BOOLEAN :
       LET res == buildMediaFile(CurEntry, fault) IN
       /\ fault => Resolve(Abs(CurEntry)) \in DOMAIN files
       /\ MayFault(fault)
       /\ fileCounter' = fileCounter + 1
       /\ IF res.err # NoErr
          THEN /\ LogError(Wrap(<<"m", "e", "t", "a", "d", "a", "t", "a", " ">> \o CurEntry,
                                res.err))
               /\ todo' = Tail(todo)
               /\ UNCHANGED <<built, scanPC>>
          ELSE /\ built' = res.file
               /\ scanPC' = "persist"
               /\ UNCHANGED <<todo, scanSummary>>
  /\ UNCHANGED <<media, cancelled, scanOpts, srcIdx, persistCounter,
                 scanEvents, scanResults, dupResult>>
  /\ UNCHANGED scanFrame

\* PersistFile that calls onProgress before it tests the error of the
\* upsert: a file that could not be persisted has an event too.
PersistFileReported ==
  /\ scanPC = "persist"
  /\ \E fault \in BOOLEAN :
       /\ fault => ~cancelled
       /\ MayFault(fault)
       /\ IF StoreErr("scan", fault) # NoErr
          THEN /\ LogError(Wrap(<<"p", "e", "r", "s", "i", "s", "t", " ">> \o CurEntry,
                                Wrap(<<"u", "p", "s", "e", "r", "t", " ", "m", "e", "d", "i", "a", " ", "f", "i", "l", "e">>,
                                     StoreErr("scan", fault))))
               /\ scanEvents' = Append(scanEvents,
                                       [Path |-> built.Path,
                                        FilesProcessed |-> fileCounter,
                                        FilesPersisted |-> persistCounter])
               /\ UNCHANGED <<media, persistCounter>>
          ELSE /\ media' = UpsertMediaFile(media, built)
               /\ persistCounter' = persistCounter + 1
               /\ scanEvents' = Append(scanEvents,
                                       [Path |-> built.Path,
                                        FilesProcessed |-> fileCounter,
                                        FilesPersisted |-> persistCounter + 1])
               /\ UNCHANGED scanSummary
  /\ todo' = Tail(todo)
  /\ built' = NoFile
  /\ scanPC' = "walk"
  /\ UNCHANGED <<cancelled, scanOpts, srcIdx, fileCounter, scanResults,
                 dupResult>>
  /\ UNCHANGED scanFrame

\* s.store.UpsertMediaFile(ctx, file) and the progress event: lines 139-151.
PersistFile ==
  /\ scanPC = "persist"
  /\ \E fault \in BOOLEAN :
       /\ fault => ~cancelled
       /\ MayFault(fault)
       /\ IF StoreErr("scan", fault) # NoErr
          THEN /\ LogError(Wrap(<<"p", "e", "r", "s", "i", "s", "t", " ">> \o CurEntry,
                                Wrap(<<"u", "p", "s", "e", "r", "t", " ", "m", "e", "d", "i", "a", " ", "f", "i", "l", "e">>,
                                     StoreErr("scan", fault))))
               /\ UNCHANGED <<media, persistCounter, scanEvents>>
          ELSE /\ media' = UpsertMediaFile(media, built)
               /\ persistCounter' = persistCounter + 1
               /\ scanEvents' = Append(scanEvents,
                                       [Path |-> built.Path,
                                        FilesProcessed |-> fileCounter,
                                        FilesPersisted |-> persistCounter + 1])
               /\ UNCHANGED scanSummary
  /\ todo' = Tail(todo)
  /\ built' = NoFile
  /\ scanPC' = "walk"
  /\ UNCHANGED <<cancelled, scanOpts, srcIdx, fileCounter, scanResults,
                 dupResult>>
  /\ UNCHANGED scanFrame

\* WalkDir has visited every entry and returns nil: on to the next source.
WalkEnd ==
  /\ scanPC = "walk"
  /\ todo = <<>>
  /\ srcIdx' = srcIdx + 1
  /\ scanPC' = "source"
  /\ UNCHANGED <<media, cancelled, faults, scanOpts, todo, built, fileCounter,
                 persistCounter, scanSummary, scanEvents, scanResults,
                 dupResult>>
  /\ UNCHANGED scanFrame

\* Every source was walked: the counts are put in the summary, the
\* duplicate groups are counted and Scan returns: lines 164-175.
FinishScan ==
  /\ scanPC = "source"
  /\ srcIdx = Len(scanOpts.Sources)
  /\ \E fault \in BOOLEAN :
       LET counted == [scanSummary EXCEPT !.FilesDiscovered = fileCounter,
                                          !.FilesPersisted = persistCounter]
           final == IF StoreErr("scan", fault) # NoErr
                    THEN [counted EXCEPT !.Errors =
                            Append(@, Wrap(<<"d", "u", "p", "l", "i", "c", "a", "t", "e", " ", "q", "u", "e", "r", "y">>,
                                           Wrap(<<"q", "u", "e", "r", "y", " ", "d", "u", "p", "l", "i", "c", "a", "t", "e", "s">>,
                                                StoreErr("scan", fault))))]
                    ELSE [counted EXCEPT !.DuplicateGroups =
                            Len(ListDuplicateGroups(media))]
       IN /\ fault => ~cancelled
          /\ MayFault(fault)
          /\ scanSummary' = final
          /\ ScanReturn(final, NoErr)
  /\ UNCHANGED <<media, cancelled, scanOpts, srcIdx, todo, built, fileCounter,
                 persistCounter, scanEvents, dupResult>>
  /\ UNCHANGED scanFrame

\* App.ListDuplicateGroups, callable at any time: part_002 lines 136-142.
ListGroups ==
  /\ \E fault \in BOOLEAN :
       /\ fault => ~cancelled
       /\ MayFault(fault)
       /\ dupResult' =
            IF StoreErr("list", fault) # NoErr
            THEN [groups |-> <<>>,
                  err |-> Wrap(<<"q", "u", "e", "r", "y", " ", "d", "u", "p", "l", "i", "c", "a", "t", "e", "s">>,
                               StoreErr("list", fault))]
            ELSE [groups |-> ListDuplicateGroups(media), err |-> NoErr]
  /\ UNCHANGED <<media, cancelled, scanOpts, scanPC, srcIdx, todo, built,
                 fileCounter, persistCounter, scanSummary, scanEvents,
                 scanResults>>
  /\ UNCHANGED scanFrame

ScanNext ==
  \/ Cancel
  \/ StartScan
  \/ SourceCancelled
  \/ SourceInvalid
  \/ SourceWalk
  \/ WalkDirectory
  \/ WalkSkipped
  \/ WalkCancelled
  \/ WalkFile
  \/ PersistFile
  \/ WalkEnd
  \/ FinishScan
  \/ ListGroups

SpecScan == ScanInit /\ [][ScanNext]_vars

(***************************************************************************)
(* The settings: internal/config, and App.RunScan that hands them to Scan. *)
(***************************************************************************)
\* defaultExtensions(): lines 164-166.
defaultExtensions ==
  <<<<".", "j", "p", "g">>, <<".", "j", "p", "e", "g">>,
    <<".", "p", "n", "g">>, <<".", "h", "e", "i", "c">>,
    <<".", "m", "p", "4">>, <<".", "m", "o", "v">>>>

\* Settings.applyDefaults, of the extensions: lines 126-128.
applyDefaults(includeExtensions) ==
  IF Len(includeExtensions) = 0 THEN defaultExtensions ELSE includeExtensions

\* The loop of NormalisedExtensions: lines 103-112.
RECURSIVE NormaliseFrom(_, _)
NormaliseFrom(exts, out) ==
  IF exts = <<>> THEN out
  ELSE LET ext == TrimSpace(Head(exts)) IN
       IF ext = <<>> THEN NormaliseFrom(Tail(exts), out)
       ELSE NormaliseFrom(Tail(exts),
                          Append(out, ToLower(IF HasPrefix(ext, <<".">>)
                                              THEN ext
                                              ELSE <<".">> \o ext)))

\* Settings.NormalisedExtensions.
NormalisedExtensions(includeExtensions) ==
  IF Len(includeExtensions) = 0 THEN defaultExtensions
  ELSE IF NormaliseFrom(includeExtensions, <<>>) = <<>> THEN defaultExtensions
  ELSE NormaliseFrom(includeExtensions, <<>>)

\* The App after startup: config.Load has read the settings file and
\* applied the defaults; the store is new.  The file names one source
\* folder, /p, which holds a .jpg file, a .J file and a .t file, and its
\* extension list is empty, or one entry to be trimmed, lower-cased and
\* dot-prefixed, or one entry of white space, or two entries.
InitSettings ==
  /\ media = <<>>
  /\ actions = <<>>
  /\ files = (<<"/", "p", "/", "a", ".", "j", "p", "g">> :> 1) @@ (<<"/", "p", "/", "b", ".", "J">> :> 3) @@ (<<"/", "p", "/", "e", ".", "t">> :> 4)
  /\ dirs = {<<"/">>, <<"/", "p">>}
  /\ mounts = {}
  /\ cancelled = FALSE
  /\ faults = 0
  /\ pc = "idle"
  /\ opts = [TargetBase |-> <<>>, Pattern |-> <<>>, DryRun |-> FALSE]
  /\ tmpl = <<>>
  /\ requests = <<>>
  /\ mediaMap = <<>>
  /\ idx = 0
  /\ summary = NoSummary
  /\ targetPath = <<>>
  /\ actionID = 0
  /\ moveErr = NoErr
  /\ errMsg = NoErr
  /\ events = <<>>
  /\ retErr = NoErr
  /\ links = <<>>
  /\ scanOpts = [Sources |-> <<>>, Extensions |-> <<>>,
                 FollowSymlinks |-> FALSE]
  /\ scanPC = "idle"
  /\ srcIdx = 0
  /\ todo = <<>>
  /\ built = NoFile
  /\ fileCounter = 0
  /\ persistCounter = 0
  /\ scanSummary = NoScanSummary
  /\ scanEvents = <<>>
  /\ scanResults = <<>>
  /\ dupResult = [groups |-> <<>>, err |-> NoErr]
  /\ db = DBOpened
  /\ \E file \in {<<>>, <<<<" ", "J">>>>, <<<<" ">>>>, <<<<"T">>, <<".", "j", "p", "g">>>>} :
       settings = [File |-> file, IncludeExtensions |-> applyDefaults(file)]

\* App.RunScan: the options are made from the settings and Scan is called
\* with them: part_002 lines 102-116, and scanner.go lines 59-76.
RunScanConfigured ==
  /\ scanPC \in {"idle", "done"}
  /\ Len(scanResults) < MaxScans
  /\ scanOpts' = [Sources |-> <<<<"/", "p">>>>,
                  Extensions |-> NormalisedExtensions(settings.IncludeExtensions),
                  FollowSymlinks |-> FALSE]
  /\ scanPC' = "source"
  /\ srcIdx' = 0
  /\ todo' = <<>>
  /\ built' = NoFile
  /\ fileCounter' = 0
  /\ persistCounter' = 0
  /\ scanSummary' = NoScanSummary
  /\ scanEvents' = <<>>
  /\ UNCHANGED <<media, cancelled, faults, scanResults, dupResult>>
  /\ UNCHANGED scanFrame

NextSettings ==
  \/ Cancel
  \/ RunScanConfigured
  \/ SourceCancelled
  \/ SourceInvalid
  \/ SourceWalk
  \/ WalkDirectory
  \/ WalkSkipped
  \/ WalkCancelled
  \/ WalkFile
  \/ PersistFile
  \/ WalkEnd
  \/ FinishScan

SpecSettings == InitSettings /\ [][NextSettings]_vars

(***************************************************************************)
(* The App: RunScan, ExecuteTidy and ListDuplicateGroups are bound methods *)
(* that the front end may call while another is running; they share the    *)
(* store and the disk.  The library is the one of Init; the settings name  *)
(* its two folders as the sources, no extension filter, the target base    *)
(* PathBase and the pattern of the file name alone.                        *)
(***************************************************************************)
InitApp ==
  /\ media = <<Row1, Row2>>
  /\ actions = PriorActions
  /\ \E present \in Present :
       files = [p \in {media[i].Path : i \in present} |->
                  CHOOSE i \in present : media[i].Path = p]
  /\ dirs = {<<"/">>, PathBase, PathSourceDir}
  /\ mounts = {}
  /\ cancelled = FALSE
  /\ faults = 0
  /\ pc = "idle"
  /\ opts = [TargetBase |-> <<>>, Pattern |-> <<>>, DryRun |-> FALSE]
  /\ tmpl = <<>>
  /\ requests = <<>>
  /\ mediaMap = <<>>
  /\ idx = 0
  /\ summary = NoSummary
  /\ targetPath = <<>>
  /\ actionID = 0
  /\ moveErr = NoErr
  /\ errMsg = NoErr
  /\ events = <<>>
  /\ retErr = NoErr
  /\ links = <<>>
  /\ scanOpts = [Sources |-> <<PathSourceDir, PathBase>>, Extensions |-> <<>>,
                 FollowSymlinks |-> FALSE]
  /\ scanPC = "idle"
  /\ srcIdx = 0
  /\ todo = <<>>
  /\ built = NoFile
  /\ fileCounter = 0
  /\ persistCounter = 0
  /\ scanSummary = NoScanSummary
  /\ scanEvents = <<>>
  /\ scanResults = <<>>
  /\ dupResult = [groups |-> <<>>, err |-> NoErr]
  /\ db = DBOpened
  /\ settings = [File |-> <<>>, IncludeExtensions |-> <<>>]

\* App.ExecuteTidy: Execute is called with the target base and the pattern
\* of the settings, and a batch of MaxAppBatch requests at most.
ExecuteTidy ==
  /\ StartExecute
  /\ opts'.TargetBase = PathBase
  /\ opts'.Pattern = <<"{{.OriginalName}}">>
  /\ Len(requests') <= MaxAppBatch

\* App.RunScan: Scan is called with the sources of the settings, once
\* beside the tidy run.
RunScan ==
  /\ StartScan
  /\ scanResults = <<>>

\* The steps of the three methods that these settings and this library
\* enable: there is one device, no symbolic link, no extension filter and a
\* pattern that always renders, and the listing of the duplicates, which
\* reads the store only, is left to SpecScan.
NextApp ==
  \/ Cancel
  \/ ExecuteTidy
  \/ ItemCancelled
  \/ ItemMissing
  \/ ItemSkipped
  \/ ItemPlanned
  \/ ItemPlannedLive
  \/ RecordAction
  \/ MoveRename
  \/ MoveFailed
  \/ UpdatePath
  \/ UpdateFailed
  \/ MarkCompleted
  \/ Finish
  \/ RunScan
  \/ SourceCancelled
  \/ SourceInvalid
  \/ SourceWalk
  \/ WalkDirectory
  \/ WalkCancelled
  \/ WalkFile
  \/ PersistFile
  \/ WalkEnd
  \/ FinishScan

SpecApp == InitApp /\ [][NextApp]_vars

(***************************************************************************)
(* App.ReloadSettings called beside the runs.                              *)
(***************************************************************************)
\* The callers with a run in progress.
Running ==
  {c \in {"scan"} : scanPC \notin {"idle", "done"}}
    \cup {c \in {"tidy"} : pc \notin {"idle", "done"}}

\* App.ReloadSettings, i.e. reloadSettings: storage.New opens a new store on
\* the same database file, Close is called on the store a.store held, and
\* a.store, a.scanner and a.tidy are replaced by ones built with the new
\* store.  A run in progress goes on with the Scanner or TidyExecutor it
\* was called on, whose store is the closed one; a run called later uses
\* the new one.  The settings file is as it was.  A reload beside no run
\* whose store is open changes nothing of this state.
ReloadSettings ==
  /\ Running \ db.closed # {}
  /\ db' = [db EXCEPT !.closed = @ \cup Running]
  /\ UNCHANGED <<media, actions, files, dirs, mounts, cancelled, faults, pc,
                 opts, tmpl, requests, mediaMap, idx, summary, targetPath,
                 actionID, moveErr, errMsg, events, retErr, links, scanOpts,
                 scanPC, srcIdx, todo, built, fileCounter, persistCounter,
                 scanSummary, scanEvents, scanResults, dupResult, settings>>

\* App.ExecuteTidy called with MaxReloadBatch ids at most.
ExecuteTidyFew ==
  /\ ExecuteTidy
  /\ Len(requests') <= MaxReloadBatch

\* The steps of the App with ReloadSettings among them; the context is not
\* cancelled in these runs, and one tidy run takes MaxReloadBatch ids at most.
NextReload ==
  \/ ExecuteTidyFew
  \/ ItemMissing
  \/ ItemSkipped
  \/ ItemPlanned
  \/ ItemPlannedLive
  \/ RecordAction
  \/ MoveRename
  \/ MoveFailed
  \/ UpdatePath
  \/ UpdateFailed
  \/ MarkCompleted
  \/ Finish
  \/ RunScan
  \/ SourceInvalid
  \/ SourceWalk
  \/ WalkDirectory
  \/ WalkFile
  \/ PersistFile
  \/ WalkEnd
  \/ FinishScan
  \/ ReloadSettings

SpecReload == InitApp /\ [][NextReload]_vars

(***************************************************************************)
(* A crowded target: the target base already holds a-1.j .. a-n.j, the     *)
(* names ensureUnique tries for a.j; with n = UniqueLimit - 1 every one of *)
(* them is taken.  The pattern is the file name alone.                     *)
(***************************************************************************)
InitCrowded ==
  /\ media = <<Row1, Row2>>
  /\ actions = PriorActions
  /\ \E present \in Present, n \in {0, 2, UniqueLimit - 1} :
       files = [p \in {media[i].Path : i \in present}
                      \cup {Candidate(PathBase, <<"a">>, <<".", "j">>, i) : i \in 1..n} |->
                  IF \E i \in present : media[i].Path = p
                  THEN CHOOSE i \in present : media[i].Path = p
                  ELSE 3]
  /\ dirs = {<<"/">>, PathBase, PathSourceDir}
  /\ mounts \in {{}, {PathSourceDir}}
  /\ cancelled = FALSE
  /\ faults = 0
  /\ pc = "idle"
  /\ opts = [TargetBase |-> <<>>, Pattern |-> <<>>, DryRun |-> FALSE]
  /\ tmpl = <<>>
  /\ requests = <<>>
  /\ mediaMap = <<>>
  /\ idx = 0
  /\ summary = NoSummary
  /\ targetPath = <<>>
  /\ actionID = 0
  /\ moveErr = NoErr
  /\ errMsg = NoErr
  /\ events = <<>>
  /\ retErr = NoErr
  /\ ScanIdle

NextCrowded ==
  \/ Cancel
  \/ ExecuteTidy
  \/ ItemCancelled
  \/ ItemMissing
  \/ ItemPlanFailed
  \/ ItemSkipped
  \/ ItemPlanned
  \/ ItemPlannedLive
  \/ RecordAction
  \/ MoveRename
  \/ CopyCreate
  \/ CopyWrite
  \/ CopyRemove
  \/ MoveFailed
  \/ UpdatePath
  \/ UpdateFailed
  \/ MarkCompleted
  \/ Finish

SpecCrowded == InitCrowded /\ [][NextCrowded]_vars

\* The steps of a run over the library with the long name, the pattern
\* being the file name alone: buildTargetPath cannot fail there.
NextLong ==
  \/ Cancel
  \/ ExecuteTidy
  \/ ItemCancelled
  \/ ItemMissing
  \/ ItemSkipped
  \/ ItemPlanned
  \/ ItemPlannedLive
  \/ RecordAction
  \/ MoveRename
  \/ CopyCreate
  \/ CopyWrite
  \/ CopyRemove
  \/ MoveFailed
  \/ UpdatePath
  \/ UpdateFailed
  \/ MarkCompleted
  \/ Finish

SpecLong == InitLong /\ [][NextLong]_vars

(***************************************************************************)
(* The store under concurrent callers (internal/storage, storage.New).     *)
(* Every write of the store is one db.ExecContext: it waits for a          *)
(* connection of the pool, runs its statement on it and gives the          *)
(* connection back.  storage.New sets the pool to one connection.          *)
(***************************************************************************)
\* db.SetMaxOpenConns(1)
MaxOpenConns == 1

\* A pool without a limit: sql.Open's default.
CanOpenAlways(n) == TRUE

\* database/sql opens or hands out a connection while fewer than
\* MaxOpenConns are in use; a limit of 0 or less is no limit.
CanOpen(n) == MaxOpenConns <= 0 \/ n < MaxOpenConns

\* A caller calls a write method of the store: the scan upserts the
\* MediaFile of a path already in media_files or of a new one; a tidy run
\* creates a FileAction, marks the pending one completed or failed, or
\* updates the path of the second MediaFile to a free or to a taken path.
StmtBegin ==
  \E c \in Callers :
    /\ db.stmt[c].phase = "idle"
    /\ db.issued[c] < MaxStatements
    /\ \E st \in IF c = "scan"
                  THEN {[phase |-> "wait", kind |-> "upsert", id |-> 0,
                         path |-> p, status |-> "none"] :
                          p \in {PathSource, <<"/", "s", "/", "b", ".", "j">>}}
                  ELSE {[phase |-> "wait", kind |-> "create", id |-> 2,
                         path |-> <<"/", "a", "/", "b", "/", "a", ".", "j">>, status |-> ActionStatusPending]}
                       \cup {[phase |-> "wait", kind |-> "mark", id |-> 2,
                              path |-> <<>>, status |-> s] :
                               s \in {ActionStatusCompleted, ActionStatusFailed}}
                       \cup {[phase |-> "wait", kind |-> "update", id |-> 2,
                              path |-> p, status |-> "none"] :
                               p \in {PathTidied, <<"/", "a", "/", "b", ".", "j">>}} :
         db' = [db EXCEPT !.stmt[c] = st, !.issued[c] = @ + 1]
    /\ UNCHANGED <<media, cancelled, faults, scanOpts, scanPC, srcIdx, todo,
                   built, fileCounter, persistCounter, scanSummary, scanEvents,
                   scanResults, dupResult>>
    /\ UNCHANGED <<actions, pc, opts, tmpl, requests, mediaMap, idx, summary,
                   targetPath, actionID, moveErr, errMsg, events, retErr,
                   files, dirs, mounts, links, settings>>

\* The statement gets a connection of the pool, when the pool has one to
\* give.
ConnAcquire ==
  \E c \in Callers :
    /\ db.stmt[c].phase = "wait"
    /\ CanOpen(db.numOpen)
    /\ db' = [db EXCEPT !.stmt[c].phase = "exec", !.numOpen = @ + 1]
    /\ UNCHANGED <<media, cancelled, faults, scanOpts, scanPC, srcIdx, todo,
                   built, fileCounter, persistCounter, scanSummary, scanEvents,
                   scanResults, dupResult>>
    /\ UNCHANGED <<actions, pc, opts, tmpl, requests, mediaMap, idx, summary,
                   targetPath, actionID, moveErr, errMsg, events, retErr,
                   files, dirs, mounts, links, settings>>

\* The statement runs on its connection: UpsertMediaFile, CreateAction,
\* MarkAction or UpdateMediaPath.
StmtExec ==
  \E c \in Callers :
    LET st == db.stmt[c] IN
    /\ st.phase = "exec"
    /\ media' =
         IF st.kind = "upsert"
         THEN UpsertMediaFile(media, [Row2 EXCEPT !.Path = st.path])
         ELSE IF st.kind = "update" /\ ~PathTaken(media, st.id, st.path)
         THEN UpdateMediaPath(media, st.id, st.path)
         ELSE media
    /\ actions' =
         IF st.kind = "create"
         THEN CreateAction(actions,
                [ID |-> 0, MediaID |-> st.id, SourcePath |-> PathSource,
                 TargetPath |-> st.path, ActionType |-> "move",
                 Status |-> st.status, ErrorMsg |-> Null,
                 ExecutedAt |-> FALSE, HashMD5 |-> Row2.HashMD5])
         ELSE IF st.kind = "mark"
         THEN MarkAction(actions, st.id, st.status, Null)
         ELSE actions
    /\ db' = [db EXCEPT !.stmt[c].phase = "done"]
    /\ UNCHANGED <<cancelled, faults, scanOpts, scanPC, srcIdx, todo,
                   built, fileCounter, persistCounter, scanSummary, scanEvents,
                   scanResults, dupResult>>
    /\ UNCHANGED <<pc, opts, tmpl, requests, mediaMap, idx, summary,
                   targetPath, actionID, moveErr, errMsg, events, retErr,
                   files, dirs, mounts, links, settings>>

\* ExecContext returns: the connection goes back to the pool.
ConnRelease ==
  \E c \in Callers :
    /\ db.stmt[c].phase = "done"
    /\ db' = [db EXCEPT !.stmt[c] = DBOpened.stmt[c], !.numOpen = @ - 1]
    /\ UNCHANGED <<media, cancelled, faults, scanOpts, scanPC, srcIdx, todo,
                   built, fileCounter, persistCounter, scanSummary, scanEvents,
                   scanResults, dupResult>>
    /\ UNCHANGED <<actions, pc, opts, tmpl, requests, mediaMap, idx, summary,
                   targetPath, actionID, moveErr, errMsg, events, retErr,
                   files, dirs, mounts, links, settings>>

NextPool ==
  \/ StmtBegin
  \/ ConnAcquire
  \/ StmtExec
  \/ ConnRelease

SpecPool == InitApp /\ [][NextPool]_vars

(***************************************************************************)
(* The properties checked of the executor.                                 *)
(***************************************************************************)
\* The positions of Execute inside moveFile: each step from one of them is
\* a file system call of the move.
MoveStages == {"move", "copy_create", "copy_write", "copy_remove"}

\* The store holds the FileAction of the item in flight, still pending,
\* with the item's media id, source path and target path.
PendingWritten ==
  /\ actionID \in DOMAIN actions
  /\ actions[actionID].Status = ActionStatusPending
  /\ actions[actionID].MediaID = CurFile.ID
  /\ actions[actionID].SourcePath = CurFile.Path
  /\ actions[actionID].TargetPath = targetPath

\* Whether some progress event reports a failed CreateAction.
RecordFailureReported ==
  \E i \in DOMAIN events :
    /\ events[i].Status = "failed"
    /\ HasPrefix(events[i].Error, <<"r", "e", "c", "o", "r", "d", " ", "a", "c", "t", "i", "o", "n">>)

\* C1 (write-ahead): in a live run every file system call of an item's move
\* (the rename, or a step of the copy-then-delete) is made with the item's
\* pending FileAction already in the store, carrying its media id, source
\* and target; the files change in no other step; and when CreateAction
\* fails the item is counted failed, reported, and the loop goes on to the
\* next request with no move attempted.
C1_WriteAhead ==
  [][/\ (pc \in MoveStages /\ pc' # pc) => ~opts.DryRun /\ PendingWritten
     /\ files' # files => pc \in MoveStages
     /\ (pc = "record" /\ pc' # "record" /\ actions' = actions) =>
          /\ summary'.Failed = summary.Failed + 1
          /\ files' = files
          /\ pc' = "loop" /\ idx' = idx + 1
          /\ Len(events') = Len(events) + 1]_vars

\* C1 witness: after the CreateAction of one item failed, a later item's
\* file was moved to its target under a pending row.
C1_Witness ==
  /\ pc = "update"
  /\ RecordFailureReported
  /\ PendingWritten
  /\ targetPath \in DOMAIN files
  /\ CurFile.Path \notin DOMAIN files

\* The bytes of the file of media row i are at the target of FileAction k
\* while the row still holds the action's source.
MovedNotUpdated(i, k) ==
  /\ actions[k].SourcePath # actions[k].TargetPath
  /\ actions[k].TargetPath \in DOMAIN files
  /\ files[actions[k].TargetPath] = media[i].ID
  /\ media[i].Path = actions[k].SourcePath

\* C2 (resumability): at every point of a live run, a file whose bytes are
\* at the target of a FileAction while its MediaFile row still holds that
\* action's source finds the action pending or failed, never completed; and
\* from the pending write until the path update has resolved, the row of
\* the item in flight is in the store, pending, with its source and target.
C2_Resumable ==
  /\ \A k \in DOMAIN actions : \A i \in DOMAIN media :
       MovedNotUpdated(i, k) =>
         actions[k].Status \in {ActionStatusPending, ActionStatusFailed}
  /\ pc \in MoveStages \cup {"update", "update_failed"} => PendingWritten

\* A path lies strictly under the base directory: below it, and not the
\* directory itself.
StrictlyUnder(path, base) ==
  LET b == Clean(base)
  IN /\ path # b
     /\ HasPrefix(path, IF b = <<"/">> THEN b ELSE b \o <<"/">>)

\* C3 (containment): every path buildTargetPath returns without an error,
\* for the item Execute is planning and for the item it has planned, lies
\* strictly under the target base.
C3_Containment ==
  /\ (Resolved /\ Plan.err = NoErr) => StrictlyUnder(Plan.path, opts.TargetBase)
  /\ pc \in MoveStages \cup {"record", "update"} =>
       StrictlyUnder(targetPath, opts.TargetBase)

\* C4 (dry-run purity, file system): no step of a dry run changes the
\* files or the directories.
C4_DryRunFilesystem ==
  [][opts'.DryRun => files' = files /\ dirs' = dirs]_vars

\* C5 (dry-run purity, store): no step of a dry run changes media_files or
\* file_actions, and a resolved item that plans without error to a path
\* other than its own is reported "planned" with that target and counted
\* moved.
C5_DryRunStore ==
  [][opts'.DryRun =>
       /\ media' = media
       /\ actions' = actions
       /\ (Resolved /\ Plan.err = NoErr /\ Plan.path # CurFile.Path
           /\ idx' # idx) =>
            /\ Len(events') = Len(events) + 1
            /\ events'[Len(events')].Status = "planned"
            /\ events'[Len(events')].MediaID = CurFile.ID
            /\ events'[Len(events')].Source = CurFile.Path
            /\ events'[Len(events')].Target = Plan.path
            /\ summary'.Moved = summary.Moved + 1
            /\ summary'.Failed = summary.Failed]_vars

\* C5 witness: a dry run has returned after reporting an item "planned",
\* the ledger as the earlier runs left it.
C5_Witness ==
  /\ pc = "done"
  /\ opts.DryRun
  /\ retErr = NoErr
  /\ \E i \in DOMAIN events : events[i].Status = "planned"
  /\ actions = PriorActions

\* Every request was processed, in batch order: one progress event each.
Processed ==
  /\ idx = Len(requests)
  /\ Len(events) = Len(requests)
  /\ \A i \in DOMAIN events : events[i].MediaID = requests[i].MediaID

\* Execute returned the error of the batched lookup, no item processed.
LookupFailed ==
  /\ HasPrefix(retErr, <<"g", "e", "t", " ", "m", "e", "d", "i", "a", " ", "b", "y", " ", "i", "d", "s">>)
  /\ idx = 0
  /\ events = <<>>

\* The pattern Execute parses: the default for a blank one.
EffectivePattern ==
  IF IsBlankPattern(opts.Pattern) THEN DefaultPattern ELSE opts.Pattern

\* C6 as stated (per-item isolation): a run over a non-empty batch with a
\* target base set and no cancellation has, when it returns, processed
\* every request in batch order and returns no error.
C6_Isolation ==
  (pc = "done" /\ Len(requests) > 0 /\ opts.TargetBase # <<>> /\ ~cancelled)
    => retErr = NoErr /\ Processed

\* C6 amended: a run over a non-empty batch with a target base set, a
\* pattern that parses and no cancellation either returns the error of
\* the batched lookup before any item, or processes every request in batch
\* order and returns no error, whatever per-item failures occur.
C6_IsolationAmended ==
  (pc = "done" /\ Len(requests) > 0 /\ opts.TargetBase # <<>> /\ ~cancelled
   /\ ParseOK(EffectivePattern))
    => (retErr = NoErr /\ Processed) \/ LookupFailed

\* C6 witness: an uncancelled run of three requests returned no error
\* after the first was missing, the second failed and the third moved.
C6_Witness ==
  /\ pc = "done"
  /\ ~cancelled
  /\ retErr = NoErr
  /\ Len(events) = 3
  /\ events[1].Status = "missing"
  /\ events[2].Status = "failed"
  /\ events[3].Status = "moved"

\* The step is Execute's entry with an empty batch or an unset base.
EntryRejected ==
  /\ pc = "idle"
  /\ pc' # "idle"
  /\ Len(requests') = 0 \/ opts'.TargetBase = <<>>

\* The step emits no event, writes nothing to the store, changes nothing on
\* the file system and processes no item.
NothingDone ==
  /\ events' = events
  /\ media' = media
  /\ actions' = actions
  /\ files' = files
  /\ dirs' = dirs
  /\ idx' = idx

CreatedByRun == {k \in DOMAIN actions : k > Len(PriorActions)}

\* C8 (terminal rows): between items and when Execute returns, every
\* FileAction row the run created is completed or failed.
C8_Terminal ==
  pc \in {"loop", "done"} =>
    \A k \in CreatedByRun :
      actions[k].Status \in {ActionStatusCompleted, ActionStatusFailed}

\* C9 (monotone ledger): no step removes a FileAction row or changes a
\* row's id, media id, source or target; a row that is completed or failed
\* is never modified; a pending row stays pending or becomes completed or
\* failed; and a new row is pending.
C9_Monotone ==
  [][/\ Len(actions') >= Len(actions)
     /\ \A k \in DOMAIN actions :
          /\ actions'[k].ID = actions[k].ID
          /\ actions'[k].MediaID = actions[k].MediaID
          /\ actions'[k].SourcePath = actions[k].SourcePath
          /\ actions'[k].TargetPath = actions[k].TargetPath
          /\ actions[k].Status # ActionStatusPending => actions'[k] = actions[k]
          /\ actions'[k].Status \in {ActionStatusPending, ActionStatusCompleted,
                                     ActionStatusFailed}
     /\ \A k \in DOMAIN actions' \ DOMAIN actions :
          actions'[k].Status = ActionStatusPending]_vars

\* C9 witness: the run has completed one row and failed another, the rows
\* of the earlier runs as they were.
C9_Witness ==
  /\ pc = "done"
  /\ \E k \in CreatedByRun : actions[k].Status = ActionStatusCompleted
  /\ \E k \in CreatedByRun : actions[k].Status = ActionStatusFailed
  /\ SubSeq(actions, 1, Len(PriorActions)) = PriorActions

\* C10 (completed means moved and updated): a step that marks a FileAction
\* completed, and a step of a live run that counts an item moved, is taken
\* only after moveFile returned no error, with a file at the target, the
\* source gone, and the MediaFile row of the action's media id holding the
\* target path.
C10_CompletedAfterUpdate ==
  [][/\ \A k \in DOMAIN actions :
          (actions'[k].Status = ActionStatusCompleted
           /\ actions[k].Status # ActionStatusCompleted) =>
            /\ moveErr = NoErr
            /\ actions[k].TargetPath \in DOMAIN files
            /\ actions[k].SourcePath \notin DOMAIN files
            /\ \E i \in DOMAIN media :
                 /\ media[i].ID = actions[k].MediaID
                 /\ media[i].Path = actions[k].TargetPath
     /\ \A k \in DOMAIN actions' \ DOMAIN actions :
          actions'[k].Status # ActionStatusCompleted
     /\ (~opts.DryRun /\ summary'.Moved = summary.Moved + 1) =>
          /\ moveErr = NoErr
          /\ targetPath \in DOMAIN files
          /\ CurFile.Path \notin DOMAIN files
          /\ \E i \in DOMAIN media :
               media[i].ID = CurFile.ID /\ media[i].Path = targetPath]_vars

\* C10 witness: a live run has marked a row it created completed and
\* counted the item moved.
C10_Witness ==
  /\ ~opts.DryRun
  /\ summary.Moved > 0
  /\ \E k \in CreatedByRun :
       /\ actions[k].Status = ActionStatusCompleted
       /\ actions[k].TargetPath \in DOMAIN files

\* The step ends an item whose move failed (moveErr is set) or whose path
\* update failed after the move (errMsg is set).
EndsFailedItem ==
  /\ pc \in {"move_failed", "update_failed"}
  /\ pc' # pc

\* C11 (failed items): in a live run the step that ends an item whose move
\* failed, or whose path update failed after the move, counts the item
\* failed once and nothing else, and leaves the item's FileAction failed
\* with an error message; the MediaFile row holds the source path after it,
\* and after a failed path update the bytes are at the target.
C11_FailedItem ==
  [][EndsFailedItem =>
       /\ ~opts.DryRun
       /\ summary'.Failed = summary.Failed + 1
       /\ summary'.Moved = summary.Moved
       /\ summary'.Skipped = summary.Skipped
       /\ actionID \in DOMAIN actions'
       /\ actions'[actionID].Status = ActionStatusFailed
       /\ actions'[actionID].ErrorMsg.Valid
       /\ media'[CurFile.ID].Path = CurFile.Path
       /\ pc = "update_failed" => targetPath \in DOMAIN files']_vars

\* The progress events that report an item as failed.
FailedEvents ==
  {i \in DOMAIN events : events[i].Status \in {"missing", "failed"}}

\* C12 (failures in the ledger): between items and when a live run returns,
\* every item reported failed (missing row, planning failure, move failure,
\* path-update failure) has a FileAction row written by the run for its
\* media id, with status failed and an error message.
C12_FailuresRecorded ==
  (pc \in {"loop", "done"} /\ ~opts.DryRun) =>
    \A i \in FailedEvents :
      \E k \in CreatedByRun :
        /\ actions[k].MediaID = events[i].MediaID
        /\ actions[k].Status = ActionStatusFailed
        /\ actions[k].ErrorMsg.Valid

\* The positions of Execute with an item in flight whose pending record
\* is written.
InFlight ==
  MoveStages \cup {"update", "update_failed", "move_failed", "mark_completed"}

\* C13 (cancellation is not effective mid-item): every step a live run
\* takes with an item in flight after the context was cancelled carries the
\* item on to its end: the move goes on to success or failure, a path
\* update that meets no other row at the target sets the row's path to the
\* target, the step that ends the item leaves its FileAction completed or
\* failed, and Execute returns only from the top of the loop.
C13_CancelDeferred ==
  [][(cancelled /\ ~opts.DryRun /\ pc \in InFlight /\ pc' # pc) =>
       /\ pc' \in InFlight \cup {"loop"}
       /\ (pc = "update" /\ ~PathTaken(media, CurFile.ID, targetPath)) =>
            /\ pc' = "mark_completed"
            /\ media'[CurFile.ID].Path = targetPath
       /\ pc' = "loop" =>
            actions'[actionID].Status \in
              {ActionStatusCompleted, ActionStatusFailed}]_vars

\* The number of items the summary has counted.
Counted(sm) == sm.Moved + sm.Skipped + sm.Failed

\* The step counts one item, in exactly one of moved, skipped and failed.
CountsOne ==
  \/ /\ summary'.Moved = summary.Moved + 1
     /\ summary'.Skipped = summary.Skipped
     /\ summary'.Failed = summary.Failed
  \/ /\ summary'.Moved = summary.Moved
     /\ summary'.Skipped = summary.Skipped + 1
     /\ summary'.Failed = summary.Failed
  \/ /\ summary'.Moved = summary.Moved
     /\ summary'.Skipped = summary.Skipped
     /\ summary'.Failed = summary.Failed + 1

\* C14 (summary accounting): after every step of a run moved + skipped +
\* failed is the number of items processed so far and total is the number
\* of requests; a step that ends an item counts it in exactly one of the
\* three and no other step changes a count; and when a run over a non-empty
\* batch returns without error moved + skipped + failed = total = the
\* number of requests.
C14_Accounting ==
  [][/\ pc' # "idle" =>
          /\ Counted(summary') = idx'
          /\ summary'.Total = Len(requests')
     /\ idx' = idx + 1 => CountsOne
     /\ idx' = idx => Counted(summary') = Counted(summary)
     /\ (pc' = "done" /\ retErr' = NoErr /\ Len(requests') > 0) =>
          /\ Counted(summary') = summary'.Total
          /\ summary'.Total = Len(requests')]_vars

\* C14 witness: a run of three requests returned without error having
\* counted one item moved, one skipped and one failed.
C14_Witness ==
  /\ pc = "done"
  /\ retErr = NoErr
  /\ Len(requests) = 3
  /\ summary.Moved = 1
  /\ summary.Skipped = 1
  /\ summary.Failed = 1

\* The path a file's pattern renders to under the base: what
\* buildTargetPath hands to ensureUnique, which returns it unchanged on a
\* file system with no file.
RenderedTarget(file) ==
  buildTargetPath(opts.TargetBase, tmpl, file, <<>>, dirs).path

\* ensureUnique's first candidate for a path: name-1.ext beside name.ext.
FirstCandidate(path) ==
  Candidate(Dir(path), TrimSuffix(Base(path), Ext(Base(path))),
            Ext(Base(path)), 1)

\* The batch names no id twice.
NoRepeatedID ==
  \A i, j \in DOMAIN requests : i # j => requests[i] # requests[j]

\* The progress events that report a move made.
MovedEvents == {i \in DOMAIN events : events[i].Status = "moved"}

\* In a live run over a batch of distinct ids a file is at every target
\* reported moved so far, two moved items are at two distinct paths, and
\* two whose pattern renders to the same target are at that target and at
\* its first candidate.
DistinctFinalPaths ==
  (~opts.DryRun /\ NoRepeatedID) =>
    \A i, j \in MovedEvents :
      /\ events[i].Target \in DOMAIN files
      /\ i # j =>
           /\ events[i].Target # events[j].Target
           /\ RenderedTarget(mediaMap[events[i].MediaID])
                = RenderedTarget(mediaMap[events[j].MediaID]) =>
                {events[i].Target, events[j].Target} =
                  {RenderedTarget(mediaMap[events[i].MediaID]),
                   FirstCandidate(RenderedTarget(mediaMap[events[i].MediaID]))}

\* C15 (uniqueness): no step changes the content of a path that holds a
\* whole file, the rename and the create of a move are made onto a path
\* where no file exists, and between the items of a live run of distinct
\* ids, and when it returns, two files whose pattern renders to the same
\* target are at two distinct final paths, name.ext and name-1.ext.
C15_Unique ==
  [][/\ \A p \in DOMAIN files \cap DOMAIN files' :
          files'[p] # files[p] => files[p] = Partial /\ p = targetPath
     /\ (pc \in {"move", "copy_create"} /\ files' # files) =>
          targetPath \notin DOMAIN files
     /\ pc = "loop" => DistinctFinalPaths]_vars

\* The positions of Execute inside moveFile's copy-then-delete.
CopyStages == {"copy_create", "copy_write", "copy_remove"}

\* The source and the target of the move in flight are on different
\* devices: os.Rename fails with a cross-device error.
CrossDevice == Device(CurFile.Path) # Device(targetPath)

\* C16 (cross-device fallback): moveFile goes from the rename to the copy
\* exactly when the source exists and the rename fails with a cross-device
\* error; any other rename failure ends the move in failure with the files
\* as they were; the copy-then-delete that succeeds leaves the target
\* holding the source's bytes and the source gone; and a failed delete
\* after the copy ends the move in failure.
C16_CrossDevice ==
  [][/\ (pc = "move" /\ pc' # pc) =>
          /\ pc' = "copy_create" <=>
               (CurFile.Path \in DOMAIN files /\ CrossDevice)
          /\ pc' = "move_failed" => files' = files /\ moveErr' # NoErr
          /\ pc' = "update" =>
               /\ files'[targetPath] = files[CurFile.Path]
               /\ CurFile.Path \notin DOMAIN files'
     /\ pc \in CopyStages => CrossDevice
     /\ (pc = "copy_remove" /\ pc' # pc) =>
          IF CurFile.Path \in DOMAIN files'
          THEN pc' = "move_failed" /\ moveErr' # NoErr
          ELSE /\ pc' = "update"
               /\ files'[targetPath] = files[CurFile.Path]
               /\ files[CurFile.Path] # Partial]_vars

(***************************************************************************)
(* The properties checked of the scanner.                                  *)
(***************************************************************************)
\* The source roots that can be walked, and the files under them that the
\* scan is to record: regular files, and links to files when links are
\* followed, that the allow-list accepts.
ValidRoots ==
  {Abs(scanOpts.Sources[i]) : i \in DOMAIN scanOpts.Sources} \cap dirs
Under(p, root) == HasPrefix(p, root \o <<"/">>)
ToRecord ==
  {p \in DOMAIN files \cup DOMAIN links :
     /\ \E root \in ValidRoots : Under(p, root)
     /\ IsLink(p) => scanOpts.FollowSymlinks
     /\ Resolve(p) \in DOMAIN files
     /\ Accepted(p)}

\* An entry of the error list that is about the path: what, then the path.
ErrorAbout(what, p) ==
  \E i \in DOMAIN scanSummary.Errors :
    HasPrefix(scanSummary.Errors[i], what \o <<" ">> \o p \o <<":">>)
FileFailed(p) ==
  \/ ErrorAbout(<<"m", "e", "t", "a", "d", "a", "t", "a">>, p)
  \/ ErrorAbout(<<"p", "e", "r", "s", "i", "s", "t">>, p)
DirFailed(p) ==
  \E d \in dirs :
    /\ Under(p, d)
    /\ \/ ErrorAbout(<<"w", "a", "l", "k">>, d)
       \/ d \in ValidRoots /\ ErrorAbout(<<"s", "t", "a", "t">>, d)

\* The file was recorded by the scan: its event was emitted and its row
\* holds the hash of its bytes.
Recorded(p) ==
  /\ \E i \in DOMAIN scanEvents : scanEvents[i].Path = p
  /\ \E k \in DOMAIN media :
       media[k].Path = p /\ media[k].HashMD5 = Md5(files[Resolve(p)])

\* The scan has returned without an operation error.
ScanReturnedNil ==
  scanPC = "done" /\ scanResults[Len(scanResults)].err = NoErr

\* The first scan of a new database is running or has returned.
InFirstScan ==
  scanPC # "idle" /\ Len(scanResults) = (IF scanPC = "done" THEN 1 ELSE 0)

\* C17: Scan returns an error only when cancelled; once Scan has returned
\* nil every source root that is not a directory is in the error list and
\* every accepted file under every valid root is recorded unless the error
\* list names it or a directory above it; a file the error list names has
\* no row (during and after the first scan of a new database).
C17_Isolation ==
  /\ \A i \in DOMAIN scanResults :
       /\ scanResults[i].err \in {NoErr, ErrCanceled}
       /\ scanResults[i].err = ErrCanceled => cancelled
  /\ ScanReturnedNil =>
       /\ \A p \in ToRecord : Recorded(p) \/ FileFailed(p) \/ DirFailed(p)
       /\ \A i \in DOMAIN scanOpts.Sources :
            Abs(scanOpts.Sources[i]) \notin dirs =>
              \/ ErrorAbout(<<"s", "t", "a", "t">>, Abs(scanOpts.Sources[i]))
              \/ \E j \in DOMAIN scanSummary.Errors :
                   HasPrefix(scanSummary.Errors[j],
                             Abs(scanOpts.Sources[i]) \o <<" ", "i", "s", " ", "n", "o", "t">>)
  /\ InFirstScan =>
       \A p \in ToRecord :
         FileFailed(p) => \A k \in DOMAIN media : media[k].Path # p

\* A scan that returned nil after a file failed and a later file was
\* recorded.
C17_Witness ==
  /\ ScanReturnedNil
  /\ \E p, q \in ToRecord :
       /\ FileFailed(p)
       /\ ~Recorded(p)
       /\ Recorded(q)
       /\ StrLess(p, q)

\* Scan has returned the cancellation signal.
ScanReturnedCancelled ==
  scanPC = "done" /\ scanResults[Len(scanResults)].err = ErrCanceled

\* C18: when Scan returns the cancellation signal, the summary it returns
\* holds the number of files processed and the number of files persisted
\* before the cancellation, and the skipped count and the error list as
\* they were; every file persisted has had its event.
C18_Cancellation ==
  ScanReturnedCancelled =>
    LET sm == scanResults[Len(scanResults)].summary
    IN /\ cancelled
       /\ sm.FilesDiscovered = fileCounter
       /\ sm.FilesPersisted = persistCounter
       /\ sm.FilesSkipped = scanSummary.FilesSkipped
       /\ sm.Errors = scanSummary.Errors
       /\ persistCounter = Len(scanEvents)

\* The first scan returned nil and nothing failed in it but the stat of a
\* source root that is not there or is not a directory: what it left
\* undone, a second scan of the unchanged tree leaves undone as well.
FirstScanClean ==
  /\ Len(scanResults) >= 1
  /\ scanResults[1].err = NoErr
  /\ \A i \in DOMAIN scanResults[1].summary.Errors :
       \/ HasSuffix(scanResults[1].summary.Errors[i], ENOENT)
       \/ HasSuffix(scanResults[1].summary.Errors[i],
                    <<"n", "o", "t", " ", "a", " ", "d", "i", "r", "e", "c", "t", "o", "r", "y">>)

\* C19: after a clean first scan, no step of the second scan of the same
\* tree changes a row or adds one, and a second scan in which nothing
\* fails returns the files-persisted count and the error list of the
\* first: no uniqueness violation among them.
C19_Idempotent ==
  [][(FirstScanClean /\ Len(scanResults) = 1 /\ scanPC # "done") =>
       /\ media' = media
       /\ (scanPC' = "done" /\ faults' = 0 /\ ~cancelled') =>
            /\ scanResults'[2].err = NoErr
            /\ scanResults'[2].summary.FilesPersisted =
                 scanResults[1].summary.FilesPersisted
            /\ scanResults'[2].summary.FilesDiscovered =
                 scanResults[1].summary.FilesDiscovered
            /\ scanResults'[2].summary.Errors = scanResults[1].summary.Errors]_vars

\* Two scans have returned nil, nothing failed in either, and the second
\* persisted every row of the store again, three or more.
C19_Witness ==
  /\ Len(scanResults) = 2
  /\ FirstScanClean
  /\ faults = 0
  /\ ~cancelled
  /\ scanResults[2].err = NoErr
  /\ scanResults[2].summary.FilesPersisted >= 3
  /\ scanResults[2].summary.FilesPersisted = Len(media)

\* The groups are those of the table: one for each hash that two rows or
\* more hold, in the order of the hashes, each with every row of its hash
\* and no other, in the order of the ids.
GroupsOf(groups, tbl) ==
  /\ \A k \in DOMAIN tbl :
       (\E j \in DOMAIN tbl : j # k /\ tbl[j].HashMD5 = tbl[k].HashMD5) =>
         \E g \in DOMAIN groups :
           /\ groups[g].Hash = tbl[k].HashMD5
           /\ \E f \in DOMAIN groups[g].Files :
                groups[g].Files[f].ID = tbl[k].ID
  /\ \A g \in DOMAIN groups :
       /\ Len(groups[g].Files) >= 2
       /\ \A f \in DOMAIN groups[g].Files :
            /\ groups[g].Files[f].HashMD5 = groups[g].Hash
            /\ \E k \in DOMAIN tbl :
                 /\ tbl[k].ID = groups[g].Files[f].ID
                 /\ tbl[k].HashMD5 = groups[g].Hash
       /\ \A e, f \in DOMAIN groups[g].Files :
            e < f => groups[g].Files[e].ID < groups[g].Files[f].ID
  /\ \A g, h \in DOMAIN groups :
       g < h => StrLess(groups[g].Hash, groups[h].Hash)
  /\ \A g, h \in DOMAIN groups :
       \A e \in DOMAIN groups[g].Files, f \in DOMAIN groups[h].Files :
         groups[g].Files[e].ID = groups[h].Files[f].ID => g = h /\ e = f

\* C20: whatever the store holds, ListDuplicateGroups returns one group for
\* each hash held by two rows or more, with all and only the rows of that
\* hash in ascending id order, the groups in the order of their hashes, no
\* group of fewer than two rows and no row in two groups; a call that
\* returns without error returns these groups, and no call changes a row.
C20_Groups ==
  [][/\ GroupsOf(ListDuplicateGroups(media), media)
     /\ dupResult' # dupResult =>
          /\ media' = media
          /\ actions' = actions
          /\ dupResult'.err = NoErr =>
               dupResult'.groups = ListDuplicateGroups(media)
          /\ dupResult'.err # NoErr => dupResult'.groups = <<>>]_vars

\* A call has returned one group of three rows from a store that also
\* holds a row whose hash no other row has.
C20_Witness ==
  /\ dupResult.err = NoErr
  /\ Len(dupResult.groups) = 1
  /\ Len(dupResult.groups[1].Files) = 3
  /\ dupResult.groups = ListDuplicateGroups(media)
  /\ \E k \in DOMAIN media : media[k].HashMD5 # dupResult.groups[1].Hash

(***************************************************************************)
(* The properties checked of the App: scans and tidy runs on one store.    *)
(***************************************************************************)
\* C21: at every instant no two MediaFile rows hold the same path, whatever
\* scans and tidy runs did and however they failed; a path update that
\* would give a row the path of another row fails and changes no row.
C21_UniquePaths ==
  [][/\ \A i, j \in DOMAIN media : i # j => media[i].Path # media[j].Path
     /\ \A i, j \in DOMAIN media' : i # j => media'[i].Path # media'[j].Path
     /\ (pc = "update" /\ pc' # pc
           /\ PathTaken(media, CurFile.ID, targetPath)) =>
          /\ media' = media
          /\ pc' = "update_failed"]_vars

\* A tidy run moved a file, the scan running beside it recorded the file at
\* its new path in a new row, and the path update of the tidy run was
\* rejected for it; nothing was cancelled and nothing else failed.
C21_Witness ==
  /\ pc = "update_failed"
  /\ PathTaken(media, CurFile.ID, targetPath)
  /\ Len(media) = 3
  /\ media[3].Path = targetPath
  /\ faults = 0
  /\ ~cancelled

NormalEntry(e) ==
  IF HasPrefix(TrimSpace(ToLower(e)), <<".">>)
  THEN TrimSpace(ToLower(e))
  ELSE <<".">> \o TrimSpace(ToLower(e))

\* The file is let through by a list: by the empty list, or by an entry
\* among those at the indices in I whose normal form is the lower-cased
\* extension of the file.
LetThrough(p, I) ==
  \/ scanOpts.Extensions = <<>>
  \/ \E i \in I : ToLower(Ext(Base(p))) = NormalEntry(scanOpts.Extensions[i])

\* The entries that are not blank, and whether there is none.
NonBlank == {i \in DOMAIN scanOpts.Extensions :
               TrimSpace(scanOpts.Extensions[i]) # <<>>}

\* The callback is at a regular file, and the step is the callback's.
AtRegular == AtEntry /\ ~IsDirectory(CurEntry) /\ ~IsLink(CurEntry)

\* What the callback does with a file that is let through (it is counted
\* as discovered, or the scan returns because the context is done) and
\* with one that is not (it is counted as skipped, and neither counted as
\* discovered nor persisted).
Taken ==
  \/ fileCounter' = fileCounter + 1 /\ scanSummary'.FilesSkipped = scanSummary.FilesSkipped
  \/ scanPC' = "done" /\ cancelled /\ fileCounter' = fileCounter
Rejected ==
  /\ scanSummary'.FilesSkipped = scanSummary.FilesSkipped + 1
  /\ fileCounter' = fileCounter
  /\ persistCounter' = persistCounter
  /\ media' = media
  /\ scanEvents' = scanEvents
  /\ todo' = Tail(todo)
  /\ scanPC' = "walk"

\* C23: with an empty allow-list every regular file is accepted; with a
\* non-empty one a file is accepted iff its lower-cased extension equals
\* some entry once trimmed, lower-cased and dot-prefixed; a rejected file
\* increments files-skipped and is neither discovered nor persisted.
C23_AllowList ==
  [][(AtRegular /\ (todo' # todo \/ scanPC' # scanPC)) =>
       IF LetThrough(CurEntry, DOMAIN scanOpts.Extensions)
       THEN Taken ELSE Rejected]_vars

\* C23 as the code has it: the entries that are blank once trimmed are no
\* entries; with no other entry every regular file is accepted, otherwise
\* a file is accepted iff its lower-cased extension equals some non-blank
\* entry once trimmed, lower-cased and dot-prefixed; a rejected file
\* increments files-skipped and is neither discovered nor persisted, and
\* no event is emitted for it.
C23_AllowListNonBlank ==
  [][/\ (AtRegular /\ (todo' # todo \/ scanPC' # scanPC)) =>
          IF NonBlank = {} \/ LetThrough(CurEntry, NonBlank)
          THEN Taken ELSE Rejected
     /\ \A i \in DOMAIN scanEvents :
          NonBlank = {} \/ LetThrough(scanEvents[i].Path, NonBlank)]_vars

\* With the allow-list of the one entry " J", a file named in upper case
\* (.J) was persisted and another file was skipped.
C23_Witness ==
  /\ scanOpts.Extensions = <<<<" ", "J">>>>
  /\ scanSummary.FilesSkipped > 0
  /\ \E i \in DOMAIN scanEvents :
       Ext(Base(scanEvents[i].Path)) = <<".", "J">>

\* C24: every entry of the extension list that App.RunScan hands to Scan is
\* in lower case and starts with a dot, and when the extension list of the
\* settings file is empty, the scan accepts every regular file, whatever
\* its extension.
C24_Configured ==
  [][/\ scanPC # "idle" =>
          \A i \in DOMAIN scanOpts.Extensions :
            /\ scanOpts.Extensions[i] = ToLower(scanOpts.Extensions[i])
            /\ HasPrefix(scanOpts.Extensions[i], <<".">>)
     /\ (settings.File = <<>> /\ AtRegular
           /\ (todo' # todo \/ scanPC' # scanPC)) => Taken]_vars

(***************************************************************************)
(* The properties checked of the path planner.                             *)
(***************************************************************************)
\* What the pattern renders to for the item in hand.
Rendered == Render(tmpl, templateData(CurFile))

\* A segment as sanitizing should leave it: not empty, none of the illegal
\* characters, no white space or dot at either end, so never "." or "..".
CleanSegment(seg) ==
  /\ seg # <<>>
  /\ \A i \in DOMAIN seg : seg[i] \notin IllegalChars
  /\ seg[1] \notin {" ", "\t", "."}
  /\ seg[Len(seg)] \notin {" ", "\t", "."}

\* The segments of a relative path: the text between its slashes.
RECURSIVE Segments(_, _)
Segments(path, seg) ==
  IF path = <<>> THEN <<seg>>
  ELSE IF Head(path) = "/" THEN <<seg>> \o Segments(Tail(path), <<>>)
  ELSE Segments(Tail(path), Append(seg, Head(path)))

\* C26: whatever the pattern renders to for an item, every segment of the
\* relative path sanitizeRelative makes of it is non-empty, has none of the
\* characters < > : " / \ | ? *, has no white space or dot at either end,
\* and so is never "." or "..".
C26_Sanitized ==
  (Resolved /\ ExecuteOK(tmpl) /\ sanitizeRelative(Rendered) # <<>>) =>
    \A i \in DOMAIN Segments(sanitizeRelative(Rendered), <<>>) :
      CleanSegment(Segments(sanitizeRelative(Rendered), <<>>)[i])

\* C27: when the pattern renders to text that sanitizes to an empty
\* relative path and buildTargetPath succeeds, the path it yields is a file
\* directly under the target base, named by the sanitized original file
\* name (or by the free "-i" candidate ensureUnique makes of that name);
\* it is never the target base itself nor a suffixed sibling of it.
C27_Fallback ==
  (Resolved /\ ExecuteOK(tmpl) /\ sanitizeRelative(Rendered) = <<>>
     /\ Plan.err = NoErr) =>
    LET name == sanitizeSegment(Base(CurFile.Path))
        wanted == Join(<<opts.TargetBase, name>>)
    IN /\ name # <<>>
       /\ Plan.path # Clean(opts.TargetBase)
       /\ Dir(Plan.path) = Clean(opts.TargetBase)
       /\ \/ Plan.path = wanted
          \/ \E i \in 1..(UniqueLimit - 1) :
               Plan.path = Candidate(Clean(opts.TargetBase),
                                     TrimSuffix(name, Ext(name)), Ext(name), i)

\* C28 (skip rule): the step that processes a resolved item whose planned
\* path is the MediaFile's own path reports the item "skipped", counts it
\* skipped and neither moved nor failed, writes no FileAction row, moves no
\* file, leaves media_files as it is, and goes on to the next item.
C28_SkipRule ==
  [][(Resolved /\ Plan.err = NoErr /\ Plan.path = CurFile.Path
        /\ (idx' # idx \/ pc' # pc)) =>
       /\ summary' = [summary EXCEPT !.Skipped = @ + 1]
       /\ Len(events') = Len(events) + 1
       /\ events'[Len(events')].Status = "skipped"
       /\ events'[Len(events')].MediaID = CurFile.ID
       /\ actions' = actions
       /\ files' = files
       /\ media' = media
       /\ idx' = idx + 1
       /\ pc' = "loop"
       /\ retErr' = retErr]_vars

\* C28 witness: the first item of a live run was skipped, its file still
\* where it was and the ledger as the earlier runs left it, and the run is
\* at the second item.
C28_Witness ==
  /\ pc = "loop"
  /\ ~opts.DryRun
  /\ idx = 1
  /\ idx < Len(requests)
  /\ summary.Skipped = 1
  /\ events[1].Status = "skipped"
  /\ events[1].Target = mediaMap[requests[1].MediaID].Path
  /\ actions = PriorActions
  /\ media = <<Row1, Row2>>

\* The path buildTargetPath hands to ensureUnique for the item in hand, and
\* the directories on disk once its MkdirAll is done.
Target ==
  LET relative == IF sanitizeRelative(Rendered) = <<>>
                  THEN sanitizeSegment(Base(CurFile.Path))
                  ELSE sanitizeRelative(Rendered)
  IN Clean(Join(<<opts.TargetBase, relative>>))

\* Something is on disk at p when ensureUnique looks.
OnDisk(p) ==
  p \in DOMAIN files \/ p \in dirs \/ p \in {Dir(Target)} \cup Ancestors(Dir(Target))

\* The given path with "-i" put in before its extension.
Suffixed(p, i) ==
  TrimSuffix(p, Ext(p)) \o <<"-">> \o Itoa(i) \o Ext(p)

\* C29 (uniqueness search): when buildTargetPath reaches ensureUnique, the
\* planned path is the given path when nothing is on disk there; else it is
\* the given path with "-i" before its extension for the smallest i in
\* 1..999 at which nothing is on disk; and when all 999 are taken the plan
\* fails, the step that processes the item counts it failed, reports it
\* with the error, touches neither store nor files, and goes on to the next
\* item.
C29_Unique ==
  [][(Resolved /\ ExecuteOK(tmpl)
        /\ HasPrefix(ToLower(Target), ToLower(Clean(opts.TargetBase)))
        /\ MkdirAll(Dir(Target), files, dirs).err = NoErr) =>
       /\ ~OnDisk(Target) => Plan.err = NoErr /\ Plan.path = Target
       /\ (OnDisk(Target)
             /\ \E i \in 1..(UniqueLimit - 1) : ~OnDisk(Suffixed(Target, i))) =>
            /\ Plan.err = NoErr
            /\ \E i \in 1..(UniqueLimit - 1) :
                 /\ Plan.path = Suffixed(Target, i)
                 /\ ~OnDisk(Suffixed(Target, i))
                 /\ \A j \in 1..(i - 1) : OnDisk(Suffixed(Target, j))
            /\ Dir(Plan.path) = Dir(Target)
       /\ (OnDisk(Target)
             /\ \A i \in 1..(UniqueLimit - 1) : OnDisk(Suffixed(Target, i))) =>
            /\ Plan.err = <<"u", "n", "a", "b", "l", "e", " ", "t", "o", " ", "f", "i", "n", "d", " ", "u", "n", "i", "q", "u", "e", " ", "n", "a", "m", "e", " ", "f", "o", "r", " ">> \o Target
            /\ (idx' # idx \/ pc' # pc) =>
                 /\ summary' = [summary EXCEPT !.Failed = @ + 1]
                 /\ Len(events') = Len(events) + 1
                 /\ events'[Len(events')].Status = "failed"
                 /\ events'[Len(events')].Error = Plan.err
                 /\ media' = media /\ actions' = actions /\ files' = files
                 /\ idx' = idx + 1
                 /\ pc' = "loop"
                 /\ retErr' = retErr]_vars

\* C29 witness: with a.j and a-1.j .. a-999.j in the target base, the first
\* item of the batch failed for want of a free name, nothing was moved, and
\* the run is at the second item.
C29_Witness ==
  /\ pc = "loop"
  /\ idx = 1
  /\ idx < Len(requests)
  /\ summary.Failed = 1
  /\ events[1].Status = "failed"
  /\ events[1].Error = <<"u", "n", "a", "b", "l", "e", " ", "t", "o", " ", "f", "i", "n", "d", " ", "u", "n", "i", "q", "u", "e", " ", "n", "a", "m", "e", " ", "f", "o", "r", " ">> \o PathTidied
  /\ PathTidied \in DOMAIN files
  /\ \A i \in 1..(UniqueLimit - 1) : Suffixed(PathTidied, i) \in DOMAIN files

\* C30 (tidy progress): the events emitted so far are one per item processed,
\* in batch order; the event of the k-th item has Completed = k, whatever
\* the item's outcome; and when Execute has returned nil from the loop there
\* is one event per request and the last has Completed = Total.
C30_Progress ==
  /\ pc \in {"loop", "done"} => Len(events) = idx
  /\ \A k \in DOMAIN events :
       /\ events[k].MediaID = requests[k].MediaID
       /\ events[k].Completed = k
  /\ (pc = "done" /\ retErr = NoErr /\ requests # <<>>) =>
       /\ Len(events) = Len(requests)
       /\ events[Len(events)].Completed = summary.Total

\* A caller's write is in progress: it holds a connection.
InProgress(c) == db.stmt[c].phase \in {"exec", "done"}

\* C25 (single-writer store): no two writes of concurrent callers are in
\* progress at once; a write starts only when no other is in progress; and
\* media_files and file_actions change only in the step of the one write
\* in progress, which then has run to completion.
C25_SingleWriter ==
  [][/\ \A c1, c2 \in Callers : (InProgress(c1) /\ InProgress(c2)) => c1 = c2
     /\ \A c \in Callers :
          (db.stmt[c].phase = "wait" /\ db'.stmt[c].phase = "exec") =>
            \A o \in Callers : ~InProgress(o)
     /\ (media' # media \/ actions' # actions) =>
          \E c \in Callers :
            /\ db.stmt[c].phase = "exec"
            /\ db'.stmt[c].phase = "done"
            /\ \A o \in Callers \ {c} :
                 ~InProgress(o) /\ db'.stmt[o] = db.stmt[o]]_vars

\* C25 witness: the scan's upsert holds the connection while both tidy
\* runs wait with a write of their own, after an earlier write has changed
\* file_actions.
C25_Witness ==
  /\ db.stmt["scan"].phase = "exec"
  /\ db.stmt["tidy"].phase = "wait"
  /\ db.stmt["tidy2"].phase = "wait"
  /\ actions # PriorActions

\* The entries of the error list about one file: "metadata ..." and
\* "persist ...".
FileErrors(errors) ==
  {i \in DOMAIN errors :
     \/ HasPrefix(errors[i], <<"m", "e", "t", "a", "d", "a", "t", "a", " ">>)
     \/ HasPrefix(errors[i], <<"p", "e", "r", "s", "i", "s", "t", " ">>)}

\* C31 (scan progress): a step of Scan emits an event exactly when it
\* persists a file, and then one event, for that file; a step that skips a
\* file or logs an error emits none; the i-th event of a scan has
\* FilesPersisted = i, FilesProcessed grows strictly from event to event and
\* is never below FilesPersisted; and the summary of a scan that ran to its
\* end has FilesDiscovered = FilesPersisted + the number of metadata and
\* persist errors.
C31_ScanProgress ==
  [][/\ (scanPC' # "source" \/ scanPC # "done") =>
          /\ Len(scanEvents') = persistCounter'
          /\ (persistCounter' # persistCounter /\ scanPC = "persist") =>
               /\ persistCounter' = persistCounter + 1
               /\ scanEvents' = Append(scanEvents,
                                       [Path |-> built.Path,
                                        FilesProcessed |-> fileCounter,
                                        FilesPersisted |-> persistCounter'])
               /\ \E k \in DOMAIN media' : media'[k] = [built EXCEPT !.ID = k]
          /\ (scanSummary'.FilesSkipped # scanSummary.FilesSkipped
               \/ scanSummary'.Errors # scanSummary.Errors) =>
               scanEvents' = scanEvents
     /\ \A i \in DOMAIN scanEvents :
          /\ scanEvents[i].FilesPersisted = i
          /\ scanEvents[i].FilesPersisted <= scanEvents[i].FilesProcessed
          /\ i > 1 => scanEvents[i].FilesProcessed > scanEvents[i - 1].FilesProcessed
     /\ ScanReturnedNil =>
          LET sm == scanResults[Len(scanResults)].summary
          IN /\ sm.FilesPersisted = Len(scanEvents)
             /\ sm.FilesDiscovered =
                  sm.FilesPersisted + Cardinality(FileErrors(sm.Errors))]_vars

\* C31 witness: a scan ran to its end having skipped a file, failed to
\* persist another and persisted two more after it.
C31_Witness ==
  /\ ScanReturnedNil
  /\ scanSummary.FilesSkipped > 0
  /\ Cardinality(FileErrors(scanSummary.Errors)) = 1
  /\ Len(scanEvents) >= 2
  /\ scanEvents[1].FilesProcessed = 2
  /\ scanSummary.FilesDiscovered = Len(scanEvents) + 1

AlreadyTidied ==
  /\ Resolved
  /\ media[CurFile.ID].Path = CurFile.Path
  /\ CurFile.Path \in DOMAIN files
  /\ files[CurFile.Path] = CurFile.ID
  /\ \E k \in DOMAIN actions :
       /\ actions[k].MediaID = CurFile.ID
       /\ actions[k].Status = ActionStatusCompleted
       /\ actions[k].TargetPath = CurFile.Path
  /\ RenderedTarget(CurFile) = CurFile.Path

\* C33 (tidy is idempotent on already-tidied files): the step a live run
\* takes on an item whose file an earlier live run moved to the path its
\* base and pattern render skips the item: it is counted skipped, the file
\* stays where it is, the MediaFile row keeps its path and no FileAction
\* row is written.
C33_Idempotent ==
  [][(AlreadyTidied /\ ~opts.DryRun /\ (idx' # idx \/ pc' # pc)) =>
       /\ summary' = [summary EXCEPT !.Skipped = @ + 1]
       /\ pc' = "loop"
       /\ files' = files
       /\ media' = media
       /\ actions' = actions]_vars

\* C34 (a dry run predicts the live run): the targets a dry run reports are
\* those a live run of the same batch produces, so a dry run reports no
\* target path for two different items of its batch: two "planned" events
\* of one dry run that are about different media ids name different
\* targets.
C34_DryRunPredicts ==
  opts.DryRun =>
    \A i, j \in DOMAIN events :
      (/\ events[i].Status = "planned"
       /\ events[j].Status = "planned"
       /\ events[i].MediaID # events[j].MediaID) =>
        events[i].Target # events[j].Target

\* The contents that are whole somewhere on disk.
Contents(f) == {f[p] : p \in DOMAIN f} \ {Partial}

\* C35 (no data loss in a move): no step of moveFile loses a content that
\* was whole on disk; what the source held is, after the step, whole at the
\* source or at the target; and the step that removes the source after a
\* copy finds the target already holding the whole content (written and
\* closed).
C35_NoDataLoss ==
  [][(pc \in MoveStages /\ CurFile.Path \in DOMAIN files) =>
       /\ Contents(files) \subseteq Contents(files')
       /\ \/ /\ CurFile.Path \in DOMAIN files'
             /\ files'[CurFile.Path] = files[CurFile.Path]
          \/ /\ targetPath \in DOMAIN files'
             /\ files'[targetPath] = files[CurFile.Path]
             /\ pc = "copy_remove" =>
                  /\ targetPath \in DOMAIN files
                  /\ files[targetPath] = files[CurFile.Path]]_vars

\* C35 witnesses: a copy fallback that failed at its last sub-step, the
\* removal of the source, leaves the content whole at both paths.
C35_Witness ==
  /\ pc = "move_failed"
  /\ HasPrefix(moveErr, <<"r", "e", "m", "o", "v", "e", " ", "s", "o", "u", "r", "c", "e">>)
  /\ CurFile.Path \in DOMAIN files
  /\ targetPath \in DOMAIN files
  /\ files[targetPath] = files[CurFile.Path]
  /\ files[targetPath] # Partial

\* C36 (repeated identifier in a batch): in a live run, once an occurrence
\* of a media id was reported moved, every later occurrence of that id is
\* reported failed, the file is at the target of the first move and the
\* MediaFile row holds that target.
C36_RepeatedID ==
  ~opts.DryRun =>
    \A j, i \in DOMAIN events :
      (/\ j < i
       /\ events[j].MediaID = events[i].MediaID
       /\ events[j].Status = "moved"
       /\ \A h \in 1..(j - 1) : events[h].MediaID # events[j].MediaID) =>
        /\ events[i].Status = "failed"
        /\ events[j].Target \in DOMAIN files
        /\ files[events[j].Target] = events[j].MediaID
        /\ media[events[j].MediaID].Path = events[j].Target

\* C37 (a concurrent scan and live tidy keep one row per file): when the
\* scan and the live tidy run have both finished, the file of every
\* FileAction the run completed has exactly one MediaFile row, that row
\* holds the action's target path, and no row the scan created holds the
\* action's source path.
C37_OneRowPerFile ==
  (pc = "done" /\ scanPC = "done" /\ ~opts.DryRun) =>
    \A k \in DOMAIN actions :
      (k > Len(PriorActions) /\ actions[k].Status = ActionStatusCompleted) =>
        /\ Cardinality({r \in DOMAIN media :
                          media[r].HashMD5 = actions[k].HashMD5}) = 1
        /\ \A r \in DOMAIN media :
             media[r].HashMD5 = actions[k].HashMD5 =>
               media[r].Path = actions[k].TargetPath
        /\ \A r \in DOMAIN media :
             r > Len(<<Row1, Row2>>) => media[r].Path # actions[k].SourcePath

\* The positions of a run at which its next step is a statement on the
\* store: CreateAction, MarkAction and UpdateMediaPath of Execute,
\* UpsertMediaFile and the closing ListDuplicateGroups of Scan.
TidyStatement ==
  /\ pc \in {"record", "move_failed", "update", "update_failed", "mark_completed"}
  /\ pc = "move_failed" => actionID # 0
ScanStatement ==
  \/ scanPC = "persist"
  \/ scanPC = "source" /\ srcIdx = Len(scanOpts.Sources)

\* C38 (reload during a run): a run in progress when App.ReloadSettings is
\* called never runs a statement on a closed store: every step of Execute
\* or of Scan that is a store statement is taken with the store of its
\* caller open.
C38_OpenStore ==
  [][/\ (TidyStatement /\ pc' # pc) => "tidy" \notin db.closed
     /\ (ScanStatement /\ scanPC' # scanPC) => "scan" \notin db.closed]_vars

====
